---- MODULE Spec2Model ----
(***************************************************************************)
(* Model of the ownership / permission / ledger core of the gaming         *)
(* platform (src/game.py) and of the menu layer that calls it              *)
(* (src/main.py).                                                          *)
(*                                                                         *)
(* Money: POOCoin.valor is a float rounded to two decimals.  The model     *)
(* keeps it as an integer number of cents; a raw amount typed by a person  *)
(* (float(input(...))) is an integer number of thousandths, and POOCoin    *)
(* rounds it to cents.  Amounts stay finite and far below 2^53 cents, the  *)
(* range in which round(a + b, 2) of two two-decimal doubles is the        *)
(* two-decimal double of the exact sum.                                    *)
(***************************************************************************)
EXTENDS Integers, Sequences, FiniteSets, TLC

VARIABLES
    saldo,                  \* Usuario._saldo.valor, in cents
    jogos_adquiridos,       \* Usuario._jogos_adquiridos: name -> record
    preferencia_plataforma, \* Usuario._preferencia_plataforma
    status_aprovacao,       \* UsuarioInfantil.status_aprovacao
    permissoes,             \* UsuarioInfantil.permissoes
    catalogo,               \* Plataforma.jogos: name -> Jogo fields
    tickets,                \* Usuario._tickets
    cobrancas,              \* history: debits made by comprar_jogo per (user, game)
    atendidos,              \* the ticket dicts handed to the support chain by the last call
    atuaram,                \* the handlers whose _processa returned True, per handed ticket
    usuarios,               \* Plataforma.usuarios: the accounts in insertion order
    criados,                \* history: how many account objects were constructed
    mensagens,              \* Usuario._mensagens
    pontuacoes,             \* Jogo.pontuacoes: game -> account name -> points
    achievements,           \* Jogo.achievements: game -> codigo -> pontos_minimos
    achievements_desbloqueados, \* Usuario._achievements_desbloqueados: game -> set
    anuncios,               \* history: "[Achievement] ... desbloqueou" lines printed
    retornado,              \* the value a read accessor handed to its caller
    filas,                  \* MatchmakingQueue.filas: game -> names in arrival order
    tamanho_partida,        \* MatchmakingQueue.tamanho_partida
    _instance,              \* PlataformaSingleton._instance: 0 for None, else the object
    saida                   \* the last call and the message it printed

vars == <<saldo, jogos_adquiridos, preferencia_plataforma, status_aprovacao,
          permissoes, catalogo, tickets, cobrancas, atendidos, atuaram,
          usuarios, criados, mensagens, pontuacoes, achievements,
          achievements_desbloqueados, anuncios, retornado, filas, tamanho_partida,
          _instance, saida>>

None == "None"

(***************************************************************************)
(* Bounds of the model.                                                    *)
(***************************************************************************)
MaxSaldo == 10000
MaxTickets == 2
MaxPatches == 1
MaxContas == 3
MaxPontos == 1000
MaxMensagens == 1

\* Raw amounts a caller passes to POOCoin(...), in thousandths.
EntradasValor == {-10000, 0, 4, 49996, 100000}
\* Tokens a caller passes to definir_preferencia_plataforma.
EntradasPlataforma == {None, "Console", "Xbox"}
\* Version strings an administrator publishes.
EntradasVersao == {"1.1.0"}

(***************************************************************************)
(* POOCoin                                                                 *)
(***************************************************************************)
\* POOCoin.__init__: round(float(valor), 2).  milesimos is the raw amount in
\* thousandths; the result is in cents.  The inputs of the model are off ties
\* (a tie is decided by the binary expansion of the double).
POOCoin(milesimos) ==
    IF milesimos % 10 < 5 THEN milesimos \div 10 ELSE (milesimos \div 10) + 1

\* POOCoin.__add__ / __sub__: a new POOCoin of the float sum / difference.
POOCoin_add(a, b) == POOCoin((a + b) * 10)
POOCoin_sub(a, b) == POOCoin((a - b) * 10)
\* Mutant of POOCoin.__lt__: <= in place of <.
POOCoin_lt_Mutante(a, b) == a <= b

\* POOCoin.__lt__
POOCoin_lt(a, b) == a < b

(***************************************************************************)
(* The accounts and the catalogue the session is seeded with.              *)
(***************************************************************************)
Adultos == {"luu"}
Infantis == {"maria"}
Usuarios == Adultos \cup Infantis
\* The accounts whose wallet and library the callers of the model operate.
Compradores == {"maria"}

email == [u \in Usuarios |-> IF u = "luu" THEN "luu@ic.com" ELSE "maria@email.com"]
responsavel_email == [u \in Infantis |-> "luu@ic.com"]

NomesJogos == {"Aventuras_em_POO", "Semestre_Rush"}

CatalogoInicial ==
    [n \in NomesJogos |->
        IF n = "Aventuras_em_POO"
        THEN [preco |-> POOCoin(100000), plataformas |-> {"PC", "Console"},
              versao_atual |-> "1.0.0", patches |-> << >>,
              loja |-> ("Ponto_Extra" :> POOCoin(10000))]
        ELSE [preco |-> POOCoin(50000), plataformas |-> {"PC"},
              versao_atual |-> "1.0.0", patches |-> << >>,
              loja |-> << >>]]

\* Plataforma.usuarios as the session seeds it: one record per account object,
\* in insertion order; id tells one constructed object from another.
UsuariosIniciais ==
    <<[id |-> 1, nome |-> "luu", email |-> email["luu"], tipo |-> "Adulto",
       responsavel_email |-> None],
      [id |-> 2, nome |-> "maria", email |-> email["maria"], tipo |-> "Infantil",
       responsavel_email |-> responsavel_email["maria"]]>>

\* Jogo.achievements as the session seeds it: the Achievement objects of the
\* dict in insertion order, each with its codigo and pontos_minimos.
AchievementsIniciais ==
    [n \in NomesJogos |->
        IF n = "Aventuras_em_POO"
        THEN <<[codigo |-> "P100", pontos_minimos |-> 100],
               [codigo |-> "P1000", pontos_minimos |-> 1000]>>
        ELSE << >>]

\* The object a read accessor handed to its caller: de is the accessor,
\* usuario the account, alvo the game asked for.  fresco tells whether the
\* object was constructed by the accessor (True) or is the one the account
\* stores (False), and elementos_frescos the same for the dicts inside a
\* returned list.  An object constructed by the accessor has its own content:
\* valor for a POOCoin, lista for a list, dict for a dict; the content of an
\* object the account stores is in the account.  SemRetorno: no accessor has
\* been called.
SemRetorno ==
    [de |-> None, usuario |-> None, alvo |-> None, fresco |-> TRUE,
     elementos_frescos |-> TRUE, valor |-> 0, lista |-> << >>, dict |-> << >>]

\* Game names a caller types or passes.
EntradasJogo == NomesJogos \cup {"Inexistente"}
\* Item names a caller asks comprar_item for.
EntradasItem == {"Ponto_Extra", "Espada"}

_PLAT_PERMITIDAS == {"PC", "Mobile", "Console"}

(***************************************************************************)
(* Usuario                                                                 *)
(***************************************************************************)
\* What a call printed: the operation, the account, the game or item it was
\* about, the amount it carried (cents) and the branch that printed.  Every
\* operation returns None; its outcome is the message of the branch taken:
\*   "ok"                    the success message (or none, for a silent setter)
\*   "InvalidAmount"         "O valor deve ser positivo."
\*   "InvalidPlatform"       "Plataforma inválida. Use: ..."
\*   "AlreadyOwned"          "Você já possui o jogo ..."
\*   "IncompatiblePlatform"  "... não é compatível com sua plataforma preferida."
\*   "InsufficientFunds"     "Saldo insuficiente ..."
\*   "NotOwned"              "Você precisa adquirir o jogo ..." / "Você não possui este jogo."
\*   "ItemNotFound"          the NotFoundError of Jogo.obter_preco_item, printed
\*   "UpToDate"              "... já está atualizado ..."
\*   "NotFound"              "Jogo ... não encontrado." (facade, shop menu)
\*   "NoItems"               "Este jogo não possui itens à venda."
\* retorno is the value the call returned to its caller and excecao the
\* exception that reached the caller.  The operations of Usuario and Jogo are
\* declared "-> None": each refusal is a print followed by a bare return, the
\* NotFoundError of obter_preco_item is caught inside comprar_item, and the
\* NotFoundError raised in the facade is caught and printed by
\* try_catch_wrapper, whose wrapper then returns None.
Chamada(op, u, alvo, valor, msg) ==
    [op |-> op, usuario |-> u, alvo |-> alvo, item |-> None, valor |-> valor, msg |-> msg,
     retorno |-> None, excecao |-> None]

\* What a call of comprar_item printed: the game is alvo, the item asked for
\* is item.
ChamadaItem(u, nome, nome_item, valor, msg) ==
    [Chamada("comprar_item", u, nome, valor, msg) EXCEPT !.item = nome_item]

\* Mutant of Usuario.possui_jogo: the library is never consulted.
possui_jogo_Mutante(u, nome_jogo) == FALSE

\* Usuario.possui_jogo
possui_jogo(u, nome_jogo) == nome_jogo \in DOMAIN jogos_adquiridos[u]

\* UsuarioInfantil: the fields an adult account does not have.
EhInfantil(u) == u \in Infantis

\* What the calls on the wallet and the library leave alone.
RestoCadastro == UNCHANGED <<usuarios, criados, mensagens>>
RestoAchievements ==
    UNCHANGED <<pontuacoes, achievements, achievements_desbloqueados, anuncios>>
RestoLoja ==
    /\ UNCHANGED <<tickets, atendidos, atuaram, retornado, filas, tamanho_partida, _instance>>
    /\ RestoCadastro
    /\ RestoAchievements

\* Mutant of Usuario.adicionar_saldo: the test is != 0 in place of > 0.
AdicionarSaldo_Mutante(u, milesimos) ==
    LET valor_adicionar == POOCoin(milesimos) IN
    /\ IF valor_adicionar # 0
       THEN /\ POOCoin_add(saldo[u], valor_adicionar) <= MaxSaldo
            /\ saldo' = [saldo EXCEPT ![u] = POOCoin_add(@, valor_adicionar)]
            /\ saida' = Chamada("adicionar_saldo", u, None, valor_adicionar, "ok")
       ELSE /\ saldo' = saldo
            /\ saida' = Chamada("adicionar_saldo", u, None, valor_adicionar, "InvalidAmount")
    /\ UNCHANGED <<jogos_adquiridos, preferencia_plataforma, cobrancas,
                   status_aprovacao, permissoes, catalogo>>
    /\ RestoLoja

\* Usuario.adicionar_saldo(POOCoin(valor))
AdicionarSaldo(u, milesimos) ==
    LET valor_adicionar == POOCoin(milesimos) IN
    /\ IF valor_adicionar > 0
       THEN /\ POOCoin_add(saldo[u], valor_adicionar) <= MaxSaldo
            /\ saldo' = [saldo EXCEPT ![u] = POOCoin_add(@, valor_adicionar)]
            /\ saida' = Chamada("adicionar_saldo", u, None, valor_adicionar, "ok")
       ELSE /\ saldo' = saldo
            /\ saida' = Chamada("adicionar_saldo", u, None, valor_adicionar, "InvalidAmount")
    /\ UNCHANGED <<jogos_adquiridos, preferencia_plataforma, cobrancas,
                   status_aprovacao, permissoes, catalogo>>
    /\ RestoLoja

\* Mutant of the setter of Usuario.preferencia_plataforma: the token is stored
\* before it is validated.
DefinirPreferenciaPlataforma_SemValidar(u, plataforma) ==
    /\ preferencia_plataforma' = [preferencia_plataforma EXCEPT ![u] = plataforma]
    /\ saida' = Chamada("definir_preferencia_plataforma", u, plataforma, 0,
                        IF plataforma = None \/ plataforma \in _PLAT_PERMITIDAS
                        THEN "ok" ELSE "InvalidPlatform")
    /\ UNCHANGED <<saldo, jogos_adquiridos, cobrancas, status_aprovacao, permissoes, catalogo>>
    /\ RestoLoja

\* Usuario.preferencia_plataforma (setter) through definir_preferencia_plataforma
DefinirPreferenciaPlataforma(u, plataforma) ==
    /\ IF plataforma = None \/ plataforma \in _PLAT_PERMITIDAS
       THEN /\ preferencia_plataforma' = [preferencia_plataforma EXCEPT ![u] = plataforma]
            /\ saida' = Chamada("definir_preferencia_plataforma", u, plataforma, 0, "ok")
       ELSE /\ preferencia_plataforma' = preferencia_plataforma
            /\ saida' = Chamada("definir_preferencia_plataforma", u, plataforma, 0,
                                "InvalidPlatform")
    /\ UNCHANGED <<saldo, jogos_adquiridos, cobrancas, status_aprovacao, permissoes, catalogo>>
    /\ RestoLoja

\* Mutant of Usuario.comprar_jogo: the ownership record is written before
\* the balance is tested.
comprar_jogo_Mutante(u, nome) ==
    LET jogo == catalogo[nome]
        registro == [obj |-> nome, versao_instalada |-> jogo.versao_atual]
    IN
    /\ IF possui_jogo(u, nome)
       THEN /\ saida' = Chamada("comprar_jogo", u, nome, jogo.preco, "AlreadyOwned")
            /\ UNCHANGED <<saldo, jogos_adquiridos, cobrancas>>
       ELSE IF /\ preferencia_plataforma[u] # None
               /\ preferencia_plataforma[u] \notin jogo.plataformas
       THEN /\ saida' = Chamada("comprar_jogo", u, nome, jogo.preco, "IncompatiblePlatform")
            /\ UNCHANGED <<saldo, jogos_adquiridos, cobrancas>>
       ELSE IF POOCoin_lt(saldo[u], jogo.preco)
       THEN /\ saida' = Chamada("comprar_jogo", u, nome, jogo.preco, "InsufficientFunds")
            /\ jogos_adquiridos' = [jogos_adquiridos EXCEPT ![u] = (nome :> registro) @@ @]
            /\ UNCHANGED <<saldo, cobrancas>>
       ELSE /\ saldo' = [saldo EXCEPT ![u] = POOCoin_sub(@, jogo.preco)]
            /\ jogos_adquiridos' = [jogos_adquiridos EXCEPT ![u] = (nome :> registro) @@ @]
            /\ cobrancas' = [cobrancas EXCEPT ![u][nome] = @ + 1]
            /\ saida' = Chamada("comprar_jogo", u, nome, jogo.preco, "ok")
    /\ UNCHANGED <<preferencia_plataforma, status_aprovacao, permissoes, catalogo>>
    /\ RestoLoja

\* Mutant of Usuario.comprar_jogo: the platform preference is not tested.
comprar_jogo_SemPlataforma(u, nome) ==
    LET jogo == catalogo[nome] IN
    /\ IF possui_jogo(u, nome)
       THEN /\ saida' = Chamada("comprar_jogo", u, nome, jogo.preco, "AlreadyOwned")
            /\ UNCHANGED <<saldo, jogos_adquiridos, cobrancas>>
       ELSE IF POOCoin_lt(saldo[u], jogo.preco)
       THEN /\ saida' = Chamada("comprar_jogo", u, nome, jogo.preco, "InsufficientFunds")
            /\ UNCHANGED <<saldo, jogos_adquiridos, cobrancas>>
       ELSE /\ saldo' = [saldo EXCEPT ![u] = POOCoin_sub(@, jogo.preco)]
            /\ jogos_adquiridos' =
                  [jogos_adquiridos EXCEPT ![u] =
                      (nome :> [obj |-> nome, versao_instalada |-> jogo.versao_atual]) @@ @]
            /\ cobrancas' = [cobrancas EXCEPT ![u][nome] = @ + 1]
            /\ saida' = Chamada("comprar_jogo", u, nome, jogo.preco, "ok")
    /\ UNCHANGED <<preferencia_plataforma, status_aprovacao, permissoes, catalogo>>
    /\ RestoLoja

\* Mutant of Usuario.comprar_jogo: the balance is tested before the platform.
comprar_jogo_OrdemTrocada(u, nome) ==
    LET jogo == catalogo[nome] IN
    /\ IF possui_jogo(u, nome)
       THEN /\ saida' = Chamada("comprar_jogo", u, nome, jogo.preco, "AlreadyOwned")
            /\ UNCHANGED <<saldo, jogos_adquiridos, cobrancas>>
       ELSE IF POOCoin_lt(saldo[u], jogo.preco)
       THEN /\ saida' = Chamada("comprar_jogo", u, nome, jogo.preco, "InsufficientFunds")
            /\ UNCHANGED <<saldo, jogos_adquiridos, cobrancas>>
       ELSE IF /\ preferencia_plataforma[u] # None
               /\ preferencia_plataforma[u] \notin jogo.plataformas
       THEN /\ saida' = Chamada("comprar_jogo", u, nome, jogo.preco, "IncompatiblePlatform")
            /\ UNCHANGED <<saldo, jogos_adquiridos, cobrancas>>
       ELSE /\ saldo' = [saldo EXCEPT ![u] = POOCoin_sub(@, jogo.preco)]
            /\ jogos_adquiridos' =
                  [jogos_adquiridos EXCEPT ![u] =
                      (nome :> [obj |-> nome, versao_instalada |-> jogo.versao_atual]) @@ @]
            /\ cobrancas' = [cobrancas EXCEPT ![u][nome] = @ + 1]
            /\ saida' = Chamada("comprar_jogo", u, nome, jogo.preco, "ok")
    /\ UNCHANGED <<preferencia_plataforma, status_aprovacao, permissoes, catalogo>>
    /\ RestoLoja

\* Usuario.comprar_jogo(jogo), jogo a game of the catalogue
comprar_jogo(u, nome) ==
    LET jogo == catalogo[nome] IN
    /\ IF possui_jogo(u, nome)
       THEN /\ saida' = Chamada("comprar_jogo", u, nome, jogo.preco, "AlreadyOwned")
            /\ UNCHANGED <<saldo, jogos_adquiridos, cobrancas>>
       ELSE IF /\ preferencia_plataforma[u] # None
               /\ preferencia_plataforma[u] \notin jogo.plataformas
       THEN /\ saida' = Chamada("comprar_jogo", u, nome, jogo.preco, "IncompatiblePlatform")
            /\ UNCHANGED <<saldo, jogos_adquiridos, cobrancas>>
       ELSE IF POOCoin_lt(saldo[u], jogo.preco)
       THEN /\ saida' = Chamada("comprar_jogo", u, nome, jogo.preco, "InsufficientFunds")
            /\ UNCHANGED <<saldo, jogos_adquiridos, cobrancas>>
       ELSE /\ saldo' = [saldo EXCEPT ![u] = POOCoin_sub(@, jogo.preco)]
            /\ jogos_adquiridos' =
                  [jogos_adquiridos EXCEPT ![u] =
                      (nome :> [obj |-> nome, versao_instalada |-> jogo.versao_atual]) @@ @]
            /\ cobrancas' = [cobrancas EXCEPT ![u][nome] = @ + 1]
            /\ saida' = Chamada("comprar_jogo", u, nome, jogo.preco, "ok")
    /\ UNCHANGED <<preferencia_plataforma, status_aprovacao, permissoes, catalogo>>
    /\ RestoLoja

\* Mutant of Usuario.comprar_item: the balance is not tested before the debit.
comprar_item_Mutante(u, nome, nome_item) ==
    LET jogo == catalogo[nome] IN
    /\ IF ~possui_jogo(u, nome)
       THEN /\ saida' = ChamadaItem(u, nome, nome_item, 0, "NotOwned")
            /\ saldo' = saldo
       ELSE IF nome_item \notin DOMAIN jogo.loja
       THEN /\ saida' = ChamadaItem(u, nome, nome_item, 0, "ItemNotFound")
            /\ saldo' = saldo
       ELSE /\ saldo' = [saldo EXCEPT ![u] = POOCoin_sub(@, jogo.loja[nome_item])]
            /\ saida' = ChamadaItem(u, nome, nome_item, jogo.loja[nome_item], "ok")
    /\ UNCHANGED <<jogos_adquiridos, cobrancas, preferencia_plataforma,
                   status_aprovacao, permissoes, catalogo>>
    /\ RestoLoja

\* Mutant of Usuario.comprar_item: the library is not consulted.
comprar_item_SemPosse(u, nome, nome_item) ==
    LET jogo == catalogo[nome] IN
    /\ IF nome_item \notin DOMAIN jogo.loja
       THEN /\ saida' = ChamadaItem(u, nome, nome_item, 0, "ItemNotFound")
            /\ saldo' = saldo
       ELSE IF POOCoin_lt(saldo[u], jogo.loja[nome_item])
       THEN /\ saida' = ChamadaItem(u, nome, nome_item, jogo.loja[nome_item],
                                    "InsufficientFunds")
            /\ saldo' = saldo
       ELSE /\ saldo' = [saldo EXCEPT ![u] = POOCoin_sub(@, jogo.loja[nome_item])]
            /\ saida' = ChamadaItem(u, nome, nome_item, jogo.loja[nome_item], "ok")
    /\ UNCHANGED <<jogos_adquiridos, cobrancas, preferencia_plataforma,
                   status_aprovacao, permissoes, catalogo>>
    /\ RestoLoja

\* Usuario.comprar_item(jogo, nome_item)
comprar_item(u, nome, nome_item) ==
    LET jogo == catalogo[nome] IN
    /\ IF ~possui_jogo(u, nome)
       THEN /\ saida' = ChamadaItem(u, nome, nome_item, 0, "NotOwned")
            /\ saldo' = saldo
       ELSE IF nome_item \notin DOMAIN jogo.loja       \* Jogo.obter_preco_item raises
       THEN /\ saida' = ChamadaItem(u, nome, nome_item, 0, "ItemNotFound")
            /\ saldo' = saldo
       ELSE IF POOCoin_lt(saldo[u], jogo.loja[nome_item])
       THEN /\ saida' = ChamadaItem(u, nome, nome_item, jogo.loja[nome_item],
                                "InsufficientFunds")
            /\ saldo' = saldo
       ELSE /\ saldo' = [saldo EXCEPT ![u] = POOCoin_sub(@, jogo.loja[nome_item])]
            /\ saida' = ChamadaItem(u, nome, nome_item, jogo.loja[nome_item], "ok")
    /\ UNCHANGED <<jogos_adquiridos, cobrancas, preferencia_plataforma,
                   status_aprovacao, permissoes, catalogo>>
    /\ RestoLoja

\* Mutant of Usuario.atualizar_jogo: the update is printed and not stored.
AtualizarJogo_SemGravar(u, nome_jogo) ==
    /\ IF ~possui_jogo(u, nome_jogo)
       THEN saida' = Chamada("atualizar_jogo", u, nome_jogo, 0, "NotOwned")
       ELSE LET registro == jogos_adquiridos[u][nome_jogo]
                jogo == catalogo[registro.obj]
            IN IF registro.versao_instalada = jogo.versao_atual
               THEN saida' = Chamada("atualizar_jogo", u, nome_jogo, 0, "UpToDate")
               ELSE saida' = Chamada("atualizar_jogo", u, nome_jogo, 0, "ok")
    /\ UNCHANGED <<saldo, jogos_adquiridos, cobrancas, preferencia_plataforma,
                   status_aprovacao, permissoes, catalogo>>
    /\ RestoLoja

\* Usuario.atualizar_jogo(nome_jogo)
AtualizarJogo(u, nome_jogo) ==
    /\ IF ~possui_jogo(u, nome_jogo)
       THEN /\ saida' = Chamada("atualizar_jogo", u, nome_jogo, 0, "NotOwned")
            /\ jogos_adquiridos' = jogos_adquiridos
       ELSE LET registro == jogos_adquiridos[u][nome_jogo]
                jogo == catalogo[registro.obj]
            IN IF registro.versao_instalada = jogo.versao_atual
               THEN /\ saida' = Chamada("atualizar_jogo", u, nome_jogo, 0, "UpToDate")
                    /\ jogos_adquiridos' = jogos_adquiridos
               ELSE /\ jogos_adquiridos' =
                          [jogos_adquiridos EXCEPT
                              ![u][nome_jogo].versao_instalada = jogo.versao_atual]
                    /\ saida' = Chamada("atualizar_jogo", u, nome_jogo, 0, "ok")
    /\ UNCHANGED <<saldo, cobrancas, preferencia_plataforma,
                   status_aprovacao, permissoes, catalogo>>
    /\ RestoLoja

(***************************************************************************)
(* Jogo                                                                    *)
(***************************************************************************)
\* Mutant of Jogo.publicar_patch: the libraries that hold the game are
\* brought to the new version as well.
PublicarPatch_Retroativo(nome, versao) ==
    /\ Len(catalogo[nome].patches) < MaxPatches
    /\ catalogo' = [catalogo EXCEPT ![nome].versao_atual = versao,
                                    ![nome].patches = Append(@, versao)]
    /\ jogos_adquiridos' =
          [u \in DOMAIN jogos_adquiridos |->
              [n \in DOMAIN jogos_adquiridos[u] |->
                  IF n = nome
                  THEN [jogos_adquiridos[u][n] EXCEPT !.versao_instalada = versao]
                  ELSE jogos_adquiridos[u][n]]]
    /\ saida' = Chamada("publicar_patch", None, nome, 0, "ok")
    /\ UNCHANGED <<saldo, cobrancas, preferencia_plataforma, status_aprovacao, permissoes>>
    /\ RestoLoja

\* Jogo.publicar_patch(versao, notas)
PublicarPatch(nome, versao) ==
    /\ Len(catalogo[nome].patches) < MaxPatches
    /\ catalogo' = [catalogo EXCEPT ![nome].versao_atual = versao,
                                    ![nome].patches = Append(@, versao)]
    /\ saida' = Chamada("publicar_patch", None, nome, 0, "ok")
    /\ UNCHANGED <<saldo, jogos_adquiridos, cobrancas, preferencia_plataforma,
                   status_aprovacao, permissoes>>
    /\ RestoLoja

(***************************************************************************)
(* Callers of the core: the facade and the menus of main.py                *)
(***************************************************************************)
\* PlataformaFacade.comprar_jogo(usuario, nome_jogo): NotFoundError is raised
\* and printed by try_catch_wrapper when the catalogue has no such game.
FacadeComprarJogo(u, nome_jogo) ==
    IF nome_jogo \notin DOMAIN catalogo
    THEN /\ saida' = Chamada("facade_comprar_jogo", u, nome_jogo, 0, "NotFound")
         /\ UNCHANGED <<saldo, jogos_adquiridos, cobrancas, preferencia_plataforma,
                        status_aprovacao, permissoes, catalogo>>
         /\ RestoLoja
    ELSE comprar_jogo(u, nome_jogo)

\* menu_usuario returns at once for a child account that is 'pendente'; the
\* status cannot change while that account's menu loop runs.
MenuAberto(u) == ~(EhInfantil(u) /\ status_aprovacao[u] = "pendente")

\* menu_usuario, choice 1: the shop lists the games not owned and compatible
\* with the preference, and buys the one whose name is typed.
jogos_a_venda(u) ==
    {n \in DOMAIN catalogo :
        /\ ~possui_jogo(u, n)
        /\ ~(preferencia_plataforma[u] # None
             /\ preferencia_plataforma[u] \notin catalogo[n].plataformas)}

MenuLoja(u, jogo_a_comprar) ==
    /\ MenuAberto(u)
    /\ jogos_a_venda(u) # {}
    /\ IF jogo_a_comprar \in jogos_a_venda(u)
       THEN comprar_jogo(u, jogo_a_comprar)
       ELSE /\ saida' = Chamada("menu_loja", u, jogo_a_comprar, 0, "NotFound")
            /\ UNCHANGED <<saldo, jogos_adquiridos, cobrancas, preferencia_plataforma,
                           status_aprovacao, permissoes, catalogo>>
            /\ RestoLoja

\* menu_usuario, choice 2: buy an item of an owned game.
MenuComprarItem(u, nome_jogo, item) ==
    /\ MenuAberto(u)
    /\ DOMAIN jogos_adquiridos[u] # {}
    /\ IF possui_jogo(u, nome_jogo) /\ DOMAIN catalogo[nome_jogo].loja # {}
       THEN comprar_item(u, nome_jogo, item)
       ELSE /\ saida' = Chamada("menu_comprar_item", u, nome_jogo, 0,
                                IF possui_jogo(u, nome_jogo) THEN "NoItems" ELSE "NotOwned")
            /\ UNCHANGED <<saldo, jogos_adquiridos, cobrancas, preferencia_plataforma,
                           status_aprovacao, permissoes, catalogo>>
            /\ RestoLoja

\* menu_dependentes: the adult approves one of the pending child accounts whose
\* responsavel_email is the adult's email, then UsuarioAdulto.definir_permissoes
\* sets both flags from the two answers.
\* plataforma.usuarios[nome]: the account stored under the key nome.
conta(nome) == usuarios[CHOOSE i \in DOMAIN usuarios : usuarios[i].nome = nome]

\* Mutant of the list of menu_dependentes: the guardian reference of the
\* child is not compared with the adult's email.
pendentes_SemEmail(usuario_adulto) ==
    {usuarios[i].nome : i \in {j \in DOMAIN usuarios :
                                 /\ usuarios[j].tipo = "Infantil"
                                 /\ status_aprovacao[usuarios[j].nome] = "pendente"}}

pendentes(usuario_adulto) ==
    {usuarios[i].nome : i \in {j \in DOMAIN usuarios :
                                 /\ usuarios[j].tipo = "Infantil"
                                 /\ usuarios[j].responsavel_email = conta(usuario_adulto).email
                                 /\ status_aprovacao[usuarios[j].nome] = "pendente"}}

MenuDependentes(usuario_adulto, dependente, perm_itens, perm_jogos) ==
    /\ dependente \in pendentes(usuario_adulto)
    /\ status_aprovacao' = [status_aprovacao EXCEPT ![dependente] = "aprovado"]
    /\ permissoes' = [permissoes EXCEPT ![dependente] =
                         [pode_comprar_itens |-> perm_itens,
                          pode_comprar_jogos |-> perm_jogos]]
    /\ saida' = Chamada("menu_dependentes", usuario_adulto, dependente, 0, "ok")
    /\ UNCHANGED <<saldo, jogos_adquiridos, cobrancas, preferencia_plataforma, catalogo>>
    /\ RestoLoja

(***************************************************************************)
(* Registration: criar_usuario of main.py and the facade                   *)
(***************************************************************************)
\* What a person types, or a caller passes, as a name, as an email (no format
\* is required of it: it may be a string that is another account's name) and
\* as the email of a guardian (the guardian's email, or the guardian's name,
\* which encontrar_usuario accepts as well).
EntradasNome == {"ana", "bia"}
EntradasEmail == {"ana@x.com", "bia"}
EntradasResponsavel == {"ana@x.com", "ana"}
\* What a person types at the login prompt.
Identificadores == EntradasNome \cup EntradasEmail
\* Ages typed: a minor and an adult.
EntradasIdade == {10, 30}

\* Plataforma.encontrar_usuario: the position of the first account, in
\* insertion order, whose name or email is the identifier; 0 for None.
encontrar_usuario(nome_ou_email) ==
    LET achados == {i \in DOMAIN usuarios :
                       \/ usuarios[i].nome = nome_ou_email
                       \/ usuarios[i].email = nome_ou_email}
    IN IF achados = {} THEN 0
       ELSE CHOOSE i \in achados : \A j \in achados : i <= j

\* dict without the key k.
Sem(f, k) == [x \in DOMAIN f \ {k} |-> f[x]]

\* self.usuarios[nome] = u on the dict: a key that exists keeps its place and
\* gets the new object, a new key goes to the end.
atribuir(nome, u) ==
    IF \E i \in DOMAIN usuarios : usuarios[i].nome = nome
    THEN [i \in DOMAIN usuarios |-> IF usuarios[i].nome = nome THEN u ELSE usuarios[i]]
    ELSE Append(usuarios, u)

\* UsuarioAdulto(...) / UsuarioInfantil(...): the object, and the state its
\* constructor gives it; responsavel is None for an adult.  The inbox is left
\* to the caller, who may write to the guardian's in the same step.
NovaConta(nome, email_, responsavel) ==
    LET infantil == responsavel # None
        u == [id |-> criados + 1, nome |-> nome, email |-> email_,
              tipo |-> IF infantil THEN "Infantil" ELSE "Adulto",
              responsavel_email |-> responsavel]
    IN /\ criados < MaxContas
       /\ criados' = criados + 1
       /\ usuarios' = atribuir(nome, u)
       /\ saldo' = (nome :> POOCoin(0)) @@ saldo
       /\ jogos_adquiridos' = (nome :> << >>) @@ jogos_adquiridos
       /\ preferencia_plataforma' = (nome :> None) @@ preferencia_plataforma
       /\ tickets' = (nome :> << >>) @@ tickets
       /\ cobrancas' = (nome :> [n \in DOMAIN catalogo |-> 0]) @@ cobrancas
       /\ achievements_desbloqueados' = (nome :> << >>) @@ achievements_desbloqueados
       /\ anuncios' = (nome :> [n \in DOMAIN catalogo |-> << >>]) @@ anuncios
       /\ IF infantil
          THEN /\ status_aprovacao' = (nome :> "pendente") @@ status_aprovacao
               /\ permissoes' = (nome :> [pode_comprar_itens |-> FALSE,
                                          pode_comprar_jogos |-> FALSE]) @@ permissoes
          ELSE /\ status_aprovacao' = Sem(status_aprovacao, nome)
               /\ permissoes' = Sem(permissoes, nome)
       /\ UNCHANGED <<catalogo, atendidos, atuaram, pontuacoes, achievements, retornado,
                      filas, tamanho_partida, _instance>>

\* A registration that was refused: nothing but the message.
NadaCriado ==
    UNCHANGED <<saldo, jogos_adquiridos, preferencia_plataforma, status_aprovacao,
                permissoes, catalogo, tickets, cobrancas, atendidos, atuaram,
                usuarios, criados, mensagens, pontuacoes, achievements,
                achievements_desbloqueados, anuncios, retornado, filas, tamanho_partida, _instance>>

\* criar_usuario(plataforma) of main.py, with what the person types.
CriarUsuario(nome, email_, idade, email_resp) ==
    IF encontrar_usuario(nome) # 0
    THEN /\ saida' = Chamada("criar_usuario", nome, email_, idade, "NameTaken")
         /\ NadaCriado
    ELSE IF encontrar_usuario(email_) # 0
    THEN /\ saida' = Chamada("criar_usuario", nome, email_, idade, "EmailTaken")
         /\ NadaCriado
    ELSE IF idade < 18
    THEN LET responsavel == encontrar_usuario(email_resp) IN
         IF responsavel # 0 /\ usuarios[responsavel].tipo = "Adulto"
         THEN /\ NovaConta(nome, email_, email_resp)
              /\ mensagens' = [((nome :> << >>) @@ mensagens) EXCEPT
                                  ![usuarios[responsavel].nome] = Append(@, nome)]
              /\ saida' = Chamada("criar_usuario", nome, email_, idade, "ok")
         ELSE /\ saida' = Chamada("criar_usuario", nome, email_, idade, "GuardianNotFound")
              /\ NadaCriado
    ELSE /\ NovaConta(nome, email_, None)
         /\ mensagens' = (nome :> << >>) @@ mensagens
         /\ saida' = Chamada("criar_usuario", nome, email_, idade, "ok")

\* PlataformaFacade.cadastrar_usuario_adulto(nome, email, senha, idade); the
\* account it returns is told by its name.
CadastrarUsuarioAdulto(nome, email_, idade) ==
    /\ NovaConta(nome, email_, None)
    /\ mensagens' = (nome :> << >>) @@ mensagens
    /\ saida' = [Chamada("cadastrar_usuario_adulto", nome, email_, idade, "ok")
                    EXCEPT !.retorno = nome]

\* PlataformaFacade.cadastrar_usuario_infantil(nome, email, senha, idade,
\* responsavel_email)
CadastrarUsuarioInfantil(nome, email_, idade, responsavel) ==
    /\ NovaConta(nome, email_, responsavel)
    /\ mensagens' = (nome :> << >>) @@ mensagens
    /\ saida' = [Chamada("cadastrar_usuario_infantil", nome, email_, idade, "ok")
                    EXCEPT !.retorno = nome]

\* login(plataforma) of an adult who then opens menu_dependentes: the account
\* is the one encontrar_usuario returns for what was typed.
LoginMenuDependentes(nome_usuario, dependente, perm_itens, perm_jogos) ==
    LET usuario == encontrar_usuario(nome_usuario) IN
    /\ usuario # 0
    /\ usuarios[usuario].tipo = "Adulto"
    /\ MenuDependentes(usuarios[usuario].nome, dependente, perm_itens, perm_jogos)

(***************************************************************************)
(* Rankings and achievements                                               *)
(***************************************************************************)
\* Points an administrator types.
EntradasPontos == {-500, 500, 1000}
\* Candidate lists a caller passes to registrar_achievements_desbloqueados:
\* the codigo of each Achievement, in order.
EntradasNovos == {<< >>, <<"P100">>, <<"P100", "P100">>, <<"P1000", "P100">>}
\* Achievements an administrator registers: codigo and pontos_minimos.
EntradasAchievement == {[codigo |-> "P100", pontos_minimos |-> 0]}

\* CalculadorPontuacaoNormal.calcular: int(pontos_informados) of an int.
calcular(pontos_informados) == pontos_informados

\* Jogo.verificar_achievements_para(nome_usuario, pontos_atuais)
verificar_achievements_para(nome_jogo, pontos_atuais) ==
    SelectSeq(achievements[nome_jogo], LAMBDA ach : pontos_atuais >= ach.pontos_minimos)

\* self._achievements_desbloqueados.get(jogo.nome, set())
desbloqueados(u, nome_jogo) ==
    IF nome_jogo \in DOMAIN achievements_desbloqueados[u]
    THEN achievements_desbloqueados[u][nome_jogo] ELSE {}

\* How many times "[Achievement] u desbloqueou: ..." was printed for a codigo.
anunciado(u, nome_jogo, codigo) ==
    IF codigo \in DOMAIN anuncios[u][nome_jogo] THEN anuncios[u][nome_jogo][codigo] ELSE 0

\* Mutant of the loop of registrar_achievements_desbloqueados: the test
\* "ach.codigo not in s" is dropped.
RECURSIVE registrar_loop_SemTeste(_, _, _)
registrar_loop_SemTeste(novos, s, impressos) ==
    IF novos = << >> THEN [s |-> s, impressos |-> impressos]
    ELSE registrar_loop_SemTeste(Tail(novos), s \cup {Head(novos)},
                                 Append(impressos, Head(novos)))

\* The loop of registrar_achievements_desbloqueados over the codes of novos:
\* the set as left and the codes announced, in order.
RECURSIVE registrar_loop(_, _, _)
registrar_loop(novos, s, impressos) ==
    IF novos = << >> THEN [s |-> s, impressos |-> impressos]
    ELSE IF Head(novos) \notin s
    THEN registrar_loop(Tail(novos), s \cup {Head(novos)}, Append(impressos, Head(novos)))
    ELSE registrar_loop(Tail(novos), s, impressos)

\* How many times a code occurs in a sequence.
RECURSIVE vezes(_, _)
vezes(seq, c) ==
    IF seq = << >> THEN 0
    ELSE (IF Head(seq) = c THEN 1 ELSE 0) + vezes(Tail(seq), c)

\* Usuario.registrar_achievements_desbloqueados(jogo, novos), novos the codes
\* of the candidates; op is the caller, recorded with the call.
registrar_achievements_desbloqueados(op, u, nome_jogo, novos) ==
    IF novos = << >>
    THEN /\ saida' = Chamada(op, u, nome_jogo, 0, "SemCandidatos")
         /\ UNCHANGED <<achievements_desbloqueados, anuncios>>
    ELSE LET r == registrar_loop(novos, desbloqueados(u, nome_jogo), << >>) IN
         /\ achievements_desbloqueados' =
               [achievements_desbloqueados EXCEPT ![u] = (nome_jogo :> r.s) @@ @]
         /\ anuncios' =
               [anuncios EXCEPT ![u][nome_jogo] =
                   [c \in DOMAIN @ \cup {r.impressos[i] : i \in DOMAIN r.impressos} |->
                       anunciado(u, nome_jogo, c) + vezes(r.impressos, c)]]
         /\ saida' = Chamada(op, u, nome_jogo, Len(r.impressos),
                             IF r.impressos = << >> THEN "NenhumNovo" ELSE "ok")

\* What a call on the rankings and achievements leaves alone.
RestoPontos ==
    /\ UNCHANGED <<saldo, jogos_adquiridos, preferencia_plataforma, status_aprovacao,
                   permissoes, catalogo, tickets, cobrancas, atendidos, atuaram,
                   retornado, filas, tamanho_partida, _instance>>
    /\ RestoCadastro

\* A direct call of registrar_achievements_desbloqueados with a candidate list.
RegistrarAchievementsDesbloqueados(u, nome_jogo, novos) ==
    /\ registrar_achievements_desbloqueados("registrar_achievements_desbloqueados",
                                            u, nome_jogo, novos)
    /\ UNCHANGED <<pontuacoes, achievements>>
    /\ RestoPontos

\* menu_admin, choice 2: Jogo.adicionar_pontuacao, then
\* verificar_achievements_para on the new total, then
\* registrar_achievements_desbloqueados.
MenuAdminPontuar(nome_usr, nome_jogo, pontos) ==
    LET usuario == encontrar_usuario(nome_usr) IN
    IF usuario = 0
    THEN /\ saida' = Chamada("menu_admin_pontuar", nome_usr, nome_jogo, pontos, "UserNotFound")
         /\ UNCHANGED <<pontuacoes, achievements, achievements_desbloqueados, anuncios>>
         /\ RestoPontos
    ELSE IF nome_jogo \notin DOMAIN catalogo
    THEN /\ saida' = Chamada("menu_admin_pontuar", nome_usr, nome_jogo, pontos, "NotFound")
         /\ UNCHANGED <<pontuacoes, achievements, achievements_desbloqueados, anuncios>>
         /\ RestoPontos
    ELSE IF ~possui_jogo(usuarios[usuario].nome, nome_jogo)
    THEN /\ saida' = Chamada("menu_admin_pontuar", nome_usr, nome_jogo, pontos, "NotOwned")
         /\ UNCHANGED <<pontuacoes, achievements, achievements_desbloqueados, anuncios>>
         /\ RestoPontos
    ELSE LET nome == usuarios[usuario].nome
             antes == IF nome \in DOMAIN pontuacoes[nome_jogo]
                      THEN pontuacoes[nome_jogo][nome] ELSE 0
             total == antes + calcular(pontos)
             novos == verificar_achievements_para(nome_jogo, total)
         IN /\ total \in -MaxPontos..MaxPontos
            /\ pontuacoes' = [pontuacoes EXCEPT ![nome_jogo] = (nome :> total) @@ @]
            /\ registrar_achievements_desbloqueados(
                   "menu_admin_pontuar", nome, nome_jogo,
                   [i \in DOMAIN novos |-> novos[i].codigo])
            /\ achievements' = achievements
            /\ RestoPontos

\* Jogo.registrar_achievement(ach): self.achievements[ach.codigo] = ach
RegistrarAchievement(nome_jogo, ach) ==
    /\ achievements' =
          [achievements EXCEPT ![nome_jogo] =
              IF \E i \in DOMAIN @ : @[i].codigo = ach.codigo
              THEN [i \in DOMAIN @ |-> IF @[i].codigo = ach.codigo THEN ach ELSE @[i]]
              ELSE Append(@, ach)]
    /\ saida' = Chamada("registrar_achievement", None, nome_jogo, ach.pontos_minimos, "ok")
    /\ UNCHANGED <<pontuacoes, achievements_desbloqueados, anuncios>>
    /\ RestoPontos

(***************************************************************************)
(* Tickets and the support chain                                           *)
(***************************************************************************)
\* The status strings of a ticket.
Aberto == "Aberto"
ResolvidoBasico == "Resolvido (Básico)"
ResolvidoAvancado == "Resolvido (Avançado)"
EmAnalise == "Em análise"

\* Category strings a caller passes to abrir_ticket, and problem texts.
EntradasCategoria == {"login", "pagamento", "geral"}
EntradasProblema == {"p1"}

\* dict.get(chave): None when the key is missing.
get(ticket, chave) == IF chave \in DOMAIN ticket THEN ticket[chave] ELSE None

\* ticket[chave] = valor on a dict
set(ticket, chave, valor) == (chave :> valor) @@ ticket

\* Usuario.listar_tickets: [dict(t) for t in self._tickets], new dicts that
\* hold the values of the stored ones.
listar_tickets(u) == [i \in DOMAIN tickets[u] |-> tickets[u][i]]

\* AtendimentoBasico._processa, AtendimentoAvancado._processa,
\* AtendimentoFallback._processa: the value returned and the dict as left.
processa_Basico(ticket) ==
    IF get(ticket, "categoria") \in {"login", "cadastro", "senha"}
    THEN [resolveu |-> TRUE, ticket |-> set(ticket, "status", ResolvidoBasico)]
    ELSE [resolveu |-> FALSE, ticket |-> ticket]

processa_Avancado(ticket) ==
    IF get(ticket, "categoria") \in {"pagamento", "instalacao"}
    THEN [resolveu |-> TRUE, ticket |-> set(ticket, "status", ResolvidoAvancado)]
    ELSE [resolveu |-> FALSE, ticket |-> ticket]

\* Mutant of AtendimentoFallback._processa: returns True without the status.
processa_Fallback_Mutante(ticket) == [resolveu |-> TRUE, ticket |-> ticket]

processa_Fallback(ticket) ==
    [resolveu |-> TRUE, ticket |-> set(ticket, "status", EmAnalise)]

processa(handler, ticket) ==
    CASE handler = "AtendimentoBasico" -> processa_Basico(ticket)
      [] handler = "AtendimentoAvancado" -> processa_Avancado(ticket)
      [] handler = "AtendimentoFallback" -> processa_Fallback(ticket)

\* Mutant of Plataforma._suporte_chain: the catch-all handler comes first.
suporte_chain_Mutante == <<"AtendimentoFallback", "AtendimentoBasico", "AtendimentoAvancado">>

\* Plataforma._suporte_chain: each handler followed by its _proximo.
suporte_chain == <<"AtendimentoBasico", "AtendimentoAvancado", "AtendimentoFallback">>

\* SuporteHandler.handle, on the handler at the head of cadeia: the dict as
\* left and the handlers whose _processa returned True.
RECURSIVE handle(_, _, _)
handle(cadeia, ticket, resolveram) ==
    LET r == processa(Head(cadeia), ticket)
        quem == IF r.resolveu THEN Append(resolveram, Head(cadeia)) ELSE resolveram
    IN IF ~r.resolveu /\ Tail(cadeia) # << >>
       THEN handle(Tail(cadeia), r.ticket, quem)
       ELSE [ticket |-> r.ticket, resolveram |-> quem]

RestoSuporte ==
    /\ UNCHANGED <<saldo, jogos_adquiridos, preferencia_plataforma, status_aprovacao,
                   permissoes, catalogo, cobrancas, retornado, filas, tamanho_partida, _instance>>
    /\ RestoCadastro
    /\ RestoAchievements

\* Usuario.abrir_ticket(problema, categoria)
AbrirTicket(u, problema, categoria) ==
    /\ Len(tickets[u]) < MaxTickets
    /\ tickets' = [tickets EXCEPT ![u] =
                      Append(@, [problema |-> problema, status |-> Aberto,
                                 categoria |-> categoria])]
    /\ saida' = Chamada("abrir_ticket", u, categoria, 0, "ok")
    /\ UNCHANGED <<atendidos, atuaram>>
    /\ RestoSuporte

\* menu_suporte, choice 1: abrir_ticket(problema) with the default category.
MenuSuporte(u, problema) ==
    /\ MenuAberto(u)
    /\ AbrirTicket(u, problema, "geral")

\* Plataforma.processar_tickets_usuario: the loop runs over the dicts that
\* listar_tickets returns and hands each 'Aberto' one to the chain.
ProcessarTickets(u) ==
    LET copias == listar_tickets(u)
        r == [i \in DOMAIN copias |->
                IF get(copias[i], "status") = Aberto
                THEN handle(suporte_chain, copias[i], << >>)
                ELSE [ticket |-> copias[i], resolveram |-> << >>]]
    IN /\ atendidos' = [i \in DOMAIN copias |-> r[i].ticket]
       /\ atuaram' = [i \in DOMAIN copias |-> r[i].resolveram]
       /\ tickets' = tickets
       /\ saida' = Chamada("processar_tickets_usuario", u, None, 0, "ok")
       /\ RestoSuporte

(***************************************************************************)
(* Read accessors of Usuario, and what their caller can do with the object *)
(* it receives.                                                            *)
(***************************************************************************)
\* Values a caller writes into an object it holds.
EntradasEscrita == [valor |-> 99900, status |-> "Hackeado", versao |-> "9.9.9",
                    mensagem |-> "falsa"]
EntradasMensagem == {"m1"}

\* What a read accessor and a write of its caller leave alone, the four
\* stored attributes aside.
RestoAcessor ==
    /\ UNCHANGED <<preferencia_plataforma, status_aprovacao, permissoes, cobrancas,
                   atendidos, atuaram, usuarios, criados, filas, tamanho_partida, _instance>>
    /\ RestoAchievements

\* Usuario.adicionar_mensagem(msg)
AdicionarMensagem(u, msg) ==
    /\ Len(mensagens[u]) < MaxMensagens
    /\ mensagens' = [mensagens EXCEPT ![u] = Append(@, msg)]
    /\ saida' = Chamada("adicionar_mensagem", u, None, 0, "ok")
    /\ UNCHANGED <<saldo, jogos_adquiridos, tickets, catalogo, retornado>>
    /\ RestoAcessor

\* The keys of a dict as a list.  The library of the model does not keep
\* the order of the purchases; the list is in one fixed order.
RECURSIVE lista_de(_)
lista_de(chaves) ==
    IF chaves = {} THEN << >>
    ELSE LET c == CHOOSE x \in chaves : TRUE IN <<c>> \o lista_de(chaves \ {c})

\* Usuario.saldo (property): POOCoin(self._saldo.valor), a new POOCoin.
LerSaldo(u) ==
    /\ retornado' = [SemRetorno EXCEPT !.de = "saldo", !.usuario = u, !.valor = saldo[u]]
    /\ saida' = Chamada("saldo", u, None, 0, "ok")
    /\ UNCHANGED <<saldo, jogos_adquiridos, tickets, mensagens, catalogo>>
    /\ RestoAcessor

\* Mutant of Usuario.listar_tickets: list(self._tickets), a new list of the
\* stored dicts.
ListarTickets_Raso(u) ==
    /\ retornado' = [SemRetorno EXCEPT !.de = "listar_tickets", !.usuario = u,
                                       !.elementos_frescos = FALSE,
                                       !.lista = listar_tickets(u)]
    /\ saida' = Chamada("listar_tickets", u, None, 0, "ok")
    /\ UNCHANGED <<saldo, jogos_adquiridos, tickets, mensagens, catalogo>>
    /\ RestoAcessor

\* Usuario.listar_tickets: [dict(t) for t in self._tickets], a new list of
\* new dicts.
ListarTickets(u) ==
    /\ retornado' = [SemRetorno EXCEPT !.de = "listar_tickets", !.usuario = u,
                                       !.lista = listar_tickets(u)]
    /\ saida' = Chamada("listar_tickets", u, None, 0, "ok")
    /\ UNCHANGED <<saldo, jogos_adquiridos, tickets, mensagens, catalogo>>
    /\ RestoAcessor

\* Usuario.listar_mensagens: list(self._mensagens), a new list of strings.
ListarMensagens(u) ==
    /\ retornado' = [SemRetorno EXCEPT !.de = "listar_mensagens", !.usuario = u,
                                       !.lista = mensagens[u]]
    /\ saida' = Chamada("listar_mensagens", u, None, 0, "ok")
    /\ UNCHANGED <<saldo, jogos_adquiridos, tickets, mensagens, catalogo>>
    /\ RestoAcessor

\* Usuario.listar_jogos_nomes: list(self._jogos_adquiridos.keys()), a new
\* list of strings.
ListarJogosNomes(u) ==
    /\ retornado' = [SemRetorno EXCEPT !.de = "listar_jogos_nomes", !.usuario = u,
                                       !.lista = lista_de(DOMAIN jogos_adquiridos[u])]
    /\ saida' = Chamada("listar_jogos_nomes", u, None, 0, "ok")
    /\ UNCHANGED <<saldo, jogos_adquiridos, tickets, mensagens, catalogo>>
    /\ RestoAcessor

\* Usuario.get_registro_jogo(nome_jogo): dict(reg), a new dict with the two
\* values of the stored one (the Jogo under 'obj' is the Jogo of the
\* catalogue itself), or None.
GetRegistroJogo(u, nome_jogo) ==
    /\ IF possui_jogo(u, nome_jogo)
       THEN /\ retornado' = [SemRetorno EXCEPT !.de = "get_registro_jogo", !.usuario = u,
                                               !.alvo = nome_jogo,
                                               !.dict = jogos_adquiridos[u][nome_jogo]]
            /\ saida' = Chamada("get_registro_jogo", u, nome_jogo, 0, "ok")
       ELSE /\ retornado' = [SemRetorno EXCEPT !.de = "get_registro_jogo", !.usuario = u,
                                               !.alvo = nome_jogo]
            /\ saida' = Chamada("get_registro_jogo", u, nome_jogo, 0, "None")
    /\ UNCHANGED <<saldo, jogos_adquiridos, tickets, mensagens, catalogo>>
    /\ RestoAcessor

\* The caller assigns the attribute valor of the POOCoin it received from saldo.
EscreverValor ==
    /\ retornado.de = "saldo"
    /\ IF retornado.fresco
       THEN /\ retornado' = [retornado EXCEPT !.valor = EntradasEscrita.valor]
            /\ saldo' = saldo
       ELSE /\ saldo' = [saldo EXCEPT ![retornado.usuario] = EntradasEscrita.valor]
            /\ retornado' = retornado
    /\ saida' = Chamada("escrever_valor", retornado.usuario, None, 0, "ok")
    /\ UNCHANGED <<jogos_adquiridos, tickets, mensagens, catalogo>>
    /\ RestoAcessor

\* The caller empties the list it received (list.clear()).
EsvaziarLista ==
    /\ retornado.de \in {"listar_tickets", "listar_mensagens", "listar_jogos_nomes"}
    /\ IF retornado.fresco
       THEN /\ retornado' = [retornado EXCEPT !.lista = << >>]
            /\ UNCHANGED <<tickets, mensagens>>
       ELSE /\ retornado' = retornado
            /\ tickets' = IF retornado.de = "listar_tickets"
                           THEN [tickets EXCEPT ![retornado.usuario] = << >>] ELSE tickets
            /\ mensagens' = IF retornado.de = "listar_mensagens"
                             THEN [mensagens EXCEPT ![retornado.usuario] = << >>]
                             ELSE mensagens
    /\ saida' = Chamada("esvaziar_lista", retornado.usuario, None, 0, "ok")
    /\ UNCHANGED <<saldo, jogos_adquiridos, catalogo>>
    /\ RestoAcessor

\* The caller assigns the status of a dict of the list it received from
\* listar_tickets: lista[i]['status'] = ...
EscreverStatus(i) ==
    /\ retornado.de = "listar_tickets"
    /\ i \in DOMAIN retornado.lista
    /\ IF retornado.elementos_frescos
       THEN /\ retornado' = [retornado EXCEPT
                                 !.lista[i] = set(@, "status", EntradasEscrita.status)]
            /\ tickets' = tickets
       ELSE /\ retornado' = [retornado EXCEPT
                                 !.lista[i] = set(@, "status", EntradasEscrita.status)]
            /\ tickets' = [tickets EXCEPT ![retornado.usuario][i] =
                              set(@, "status", EntradasEscrita.status)]
    /\ saida' = Chamada("escrever_status", retornado.usuario, None, i, "ok")
    /\ UNCHANGED <<saldo, jogos_adquiridos, mensagens, catalogo>>
    /\ RestoAcessor

\* The caller assigns the installed version in the dict it received from
\* get_registro_jogo: reg['versao_instalada'] = ...
EscreverVersaoInstalada ==
    /\ retornado.de = "get_registro_jogo"
    /\ retornado.dict # << >>
    /\ IF retornado.fresco
       THEN /\ retornado' = [retornado EXCEPT
                                 !.dict = set(@, "versao_instalada", EntradasEscrita.versao)]
            /\ jogos_adquiridos' = jogos_adquiridos
       ELSE /\ retornado' = retornado
            /\ jogos_adquiridos' =
                  [jogos_adquiridos EXCEPT ![retornado.usuario][retornado.alvo] =
                      set(@, "versao_instalada", EntradasEscrita.versao)]
    /\ saida' = Chamada("escrever_versao_instalada", retornado.usuario, retornado.alvo,
                        0, "ok")
    /\ UNCHANGED <<saldo, tickets, mensagens, catalogo>>
    /\ RestoAcessor

\* The caller assigns versao_atual of the Jogo it reaches through the dict it
\* received from get_registro_jogo: reg['obj'].versao_atual = ...; that Jogo
\* is the one of the catalogue.
EscreverVersaoDoJogo ==
    /\ retornado.de = "get_registro_jogo"
    /\ retornado.dict # << >>
    /\ catalogo' = [catalogo EXCEPT ![retornado.dict.obj].versao_atual =
                                       EntradasEscrita.versao]
    /\ saida' = Chamada("escrever_versao_do_jogo", retornado.usuario, retornado.alvo,
                        0, "ok")
    /\ UNCHANGED <<saldo, jogos_adquiridos, tickets, mensagens, retornado>>
    /\ RestoAcessor

(***************************************************************************)
(* gerenciar_jogos_admin (main.py): the administrator's catalogue menu     *)
(***************************************************************************)
\* What the administrator types at a price prompt, and the thousandths of a
\* POOCoin float() reads from it; float() raises ValueError on any other text.
EntradasPreco == {"-5", "5", "abc"}
NumerosDigitados == ("-5" :> (0 - 5000)) @@ ("5" :> 5000)
float(texto) ==
    IF texto \in DOMAIN NumerosDigitados
    THEN [ValueError |-> FALSE, milesimos |-> NumerosDigitados[texto]]
    ELSE [ValueError |-> TRUE, milesimos |-> 0]

\* Names typed for a new game, sets of platforms typed, and answers to the
\* Online/Offline prompt.
EntradasNovoJogo == {"Novo", "Semestre_Rush"}
EntradasPlataformas == {{}, {"Console"}}
EntradasTipo == {"1", "2", "3"}

\* Jogo.__init__: an empty shop, version 1.0.0, no patch; an empty set of
\* platforms becomes {"PC"}.
Jogo(preco, plataformas) ==
    [preco |-> preco,
     plataformas |-> IF plataformas = {} THEN {"PC"} ELSE plataformas,
     versao_atual |-> "1.0.0", patches |-> << >>, loja |-> << >>]

\* What the catalogue menu leaves alone.
RestoAdmin ==
    /\ UNCHANGED <<saldo, jogos_adquiridos, preferencia_plataforma, status_aprovacao,
                   permissoes, tickets, atendidos, atuaram, retornado,
                   achievements_desbloqueados, filas, tamanho_partida, _instance>>
    /\ RestoCadastro

\* gerenciar_jogos_admin, choice 1: a name already in plataforma.jogos is
\* refused, then the price is read by float() and wrapped in POOCoin with no
\* test of its sign, then the type is asked and JogoOnline or JogoOffline is
\* stored under the name.
GerenciarAdicionarJogo(nome_jogo, texto, plataformas, tipo) ==
    LET preco == POOCoin(float(texto).milesimos) IN
    /\ IF nome_jogo \in DOMAIN catalogo
       THEN /\ saida' = Chamada("adicionar_jogo", None, nome_jogo, 0, "JaExiste")
            /\ UNCHANGED <<catalogo, cobrancas, pontuacoes, achievements, anuncios>>
       ELSE IF float(texto).ValueError
       THEN /\ saida' = Chamada("adicionar_jogo", None, nome_jogo, 0, "PrecoInvalido")
            /\ UNCHANGED <<catalogo, cobrancas, pontuacoes, achievements, anuncios>>
       ELSE IF tipo \notin {"1", "2"}
       THEN /\ saida' = Chamada("adicionar_jogo", None, nome_jogo, preco, "TipoInvalido")
            /\ UNCHANGED <<catalogo, cobrancas, pontuacoes, achievements, anuncios>>
       ELSE /\ catalogo' = (nome_jogo :> Jogo(preco, plataformas)) @@ catalogo
            /\ pontuacoes' = (nome_jogo :> << >>) @@ pontuacoes
            /\ achievements' = (nome_jogo :> << >>) @@ achievements
            /\ cobrancas' = [u \in DOMAIN cobrancas |-> (nome_jogo :> 0) @@ cobrancas[u]]
            /\ anuncios' = [u \in DOMAIN anuncios |-> (nome_jogo :> << >>) @@ anuncios[u]]
            /\ saida' = Chamada("adicionar_jogo", None, nome_jogo, preco, "ok")
    /\ RestoAdmin

\* gerenciar_jogos_admin, choice 2: the game is looked up, then the price is
\* read by float() and Jogo.adicionar_item_loja stores POOCoin(preco) under
\* the item, replacing a price already there.
GerenciarAdicionarItem(nome_jogo, item, texto) ==
    LET preco == POOCoin(float(texto).milesimos) IN
    /\ IF nome_jogo \notin DOMAIN catalogo
       THEN /\ saida' = [Chamada("adicionar_item", None, nome_jogo, 0, "NotFound")
                            EXCEPT !.item = item]
            /\ catalogo' = catalogo
       ELSE IF float(texto).ValueError
       THEN /\ saida' = [Chamada("adicionar_item", None, nome_jogo, 0, "PrecoInvalido")
                            EXCEPT !.item = item]
            /\ catalogo' = catalogo
       ELSE /\ catalogo' = [catalogo EXCEPT ![nome_jogo].loja = (item :> preco) @@ @]
            /\ saida' = [Chamada("adicionar_item", None, nome_jogo, preco, "ok")
                            EXCEPT !.item = item]
    /\ UNCHANGED <<cobrancas, pontuacoes, achievements, anuncios>>
    /\ RestoAdmin

(***************************************************************************)
(* MatchmakingQueue and menu_matchmaking                                   *)
(***************************************************************************)
\* Sizes a caller passes to MatchmakingQueue(tamanho_partida), names passed to
\* entrar_fila, and the game whose queue the callers use.
EntradasTamanho == {0, 2, 3}
EntradasJogador == {"luu", "maria", "zed", "ana"}
EntradasFila == {"Aventuras_em_POO", "Inexistente"}

\* MatchmakingQueue.__init__: max(2, int(tamanho_partida))
MatchmakingQueue(tamanho) == IF tamanho > 2 THEN tamanho ELSE 2

\* self.filas.get(jogo, [])
fila_de(jogo) == IF jogo \in DOMAIN filas THEN filas[jogo] ELSE << >>

\* usuario in fila
na_fila(fila, usuario) == \E i \in DOMAIN fila : fila[i] = usuario

\* Mutant of the comprehension of tentar_formar_partida: pop() takes the last
\* name in place of pop(0).
pop_n_Ultimos(fila, n) ==
    [jogadores |-> [i \in 1..n |-> fila[Len(fila) + 1 - i]],
     fila |-> SubSeq(fila, 1, Len(fila) - n)]

\* [fila.pop(0) for _ in range(n)]: the names taken, in the order taken, and
\* what is left of the list.
RECURSIVE pop_n(_, _)
pop_n(fila, n) ==
    IF n = 0
    THEN [jogadores |-> << >>, fila |-> fila]
    ELSE LET resto == pop_n(Tail(fila), n - 1)
         IN [jogadores |-> <<Head(fila)>> \o resto.jogadores, fila |-> resto.fila]

\* What a call on the queues leaves alone.
RestoFila ==
    /\ UNCHANGED <<saldo, jogos_adquiridos, preferencia_plataforma, status_aprovacao,
                   permissoes, catalogo, tickets, cobrancas, atendidos, atuaram,
                   tamanho_partida, _instance>>
    /\ RestoCadastro
    /\ RestoAchievements

\* MatchmakingQueue.entrar_fila(jogo, usuario): setdefault creates the list of
\* the game, a name already in it is refused, any other is appended.
EntrarFila(jogo, usuario) ==
    LET fila == fila_de(jogo) IN
    /\ IF na_fila(fila, usuario)
       THEN /\ filas' = filas
            /\ saida' = Chamada("entrar_fila", usuario, jogo, 0, "JaNaFila")
       ELSE /\ filas' = (jogo :> Append(fila, usuario)) @@ filas
            /\ saida' = Chamada("entrar_fila", usuario, jogo, 0, "ok")
    /\ retornado' = retornado
    /\ RestoFila

\* MatchmakingQueue.tentar_formar_partida(jogo): with tamanho_partida names or
\* more waiting, a Match of the names popped from the front is returned;
\* otherwise the count is printed and None returned.  The jogadores of the
\* Match are the lista of retornado.
TentarFormarPartida(jogo) ==
    LET fila == fila_de(jogo)
        tirados == pop_n(fila, tamanho_partida)
    IN
    /\ IF Len(fila) >= tamanho_partida
       THEN /\ filas' = [filas EXCEPT ![jogo] = tirados.fila]
            /\ retornado' = [SemRetorno EXCEPT !.de = "tentar_formar_partida",
                                !.alvo = jogo, !.lista = tirados.jogadores]
            /\ saida' = [Chamada("tentar_formar_partida", None, jogo, Len(fila), "ok")
                            EXCEPT !.retorno = "Match"]
       ELSE /\ filas' = filas
            /\ retornado' = [SemRetorno EXCEPT !.de = "tentar_formar_partida",
                                !.alvo = jogo]
            /\ saida' = Chamada("tentar_formar_partida", None, jogo, Len(fila),
                                "Aguardando")
    /\ RestoFila

\* menu_matchmaking, choice 1: the game must be in plataforma.jogos and in the
\* library of the account before entrar_fila is called with the account's name.
MenuEntrarFila(u, nome_jogo) ==
    IF nome_jogo \notin DOMAIN catalogo
    THEN /\ saida' = Chamada("menu_matchmaking", u, nome_jogo, 0, "NotFound")
         /\ UNCHANGED <<filas, retornado>>
         /\ RestoFila
    ELSE IF ~possui_jogo(u, nome_jogo)
    THEN /\ saida' = Chamada("menu_matchmaking", u, nome_jogo, 0, "NotOwned")
         /\ UNCHANGED <<filas, retornado>>
         /\ RestoFila
    ELSE EntrarFila(nome_jogo, u)

(***************************************************************************)
(* PlataformaSingleton                                                     *)
(***************************************************************************)
\* Plataforma.__init__(self): self.usuarios and self.jogos are assigned new
\* empty SafeDicts and self.matchmaking a new MatchmakingQueue(2); the
\* accounts and games the object held before are no longer reachable from it.
Plataforma__init__ ==
    /\ usuarios' = << >>
    /\ catalogo' = << >>
    /\ filas' = << >>
    /\ tamanho_partida' = MatchmakingQueue(2)
    /\ saldo' = << >>
    /\ jogos_adquiridos' = << >>
    /\ preferencia_plataforma' = << >>
    /\ status_aprovacao' = << >>
    /\ permissoes' = << >>
    /\ tickets' = << >>
    /\ cobrancas' = << >>
    /\ mensagens' = << >>
    /\ pontuacoes' = << >>
    /\ achievements' = << >>
    /\ achievements_desbloqueados' = << >>
    /\ anuncios' = << >>

\* PlataformaSingleton(): __new__ allocates the object and runs
\* Plataforma.__init__ on it only while _instance is None, and returns
\* _instance; the class defines no __init__, so the call then runs the
\* inherited Plataforma.__init__ on the object returned, every time.  valor is
\* the object returned.
PlataformaSingleton ==
    /\ _instance' = IF _instance = 0 THEN 1 ELSE _instance
    /\ Plataforma__init__
    /\ saida' = [Chamada("PlataformaSingleton", None, None, _instance', "ok")
                    EXCEPT !.retorno = "PlataformaSingleton"]
    /\ UNCHANGED <<criados, atendidos, atuaram, retornado>>

\* The registry, the inboxes, the rankings and the achievements as the
\* constructors and the seeding of the session leave them.
InitSessao ==
    /\ usuarios = UsuariosIniciais
    /\ criados = Len(UsuariosIniciais)
    /\ mensagens = [u \in Usuarios |-> << >>]
    /\ pontuacoes = [n \in NomesJogos |-> << >>]
    /\ achievements = AchievementsIniciais
    /\ achievements_desbloqueados = [u \in Usuarios |-> << >>]
    /\ anuncios = [u \in Usuarios |-> [n \in NomesJogos |-> << >>]]
    /\ retornado = SemRetorno
    /\ filas = << >>
    /\ tamanho_partida = 2
    /\ _instance = 0

\* The accounts as their constructors leave them (Usuario.__init__,
\* UsuarioInfantil.__init__) and the catalogue as the session seeds it.
Init ==
    /\ saldo = [u \in Usuarios |-> POOCoin(0)]
    /\ jogos_adquiridos = [u \in Usuarios |-> << >>]
    /\ preferencia_plataforma = [u \in Usuarios |-> None]
    /\ status_aprovacao = [u \in Infantis |-> "pendente"]
    /\ permissoes = [u \in Infantis |->
                        [pode_comprar_itens |-> FALSE, pode_comprar_jogos |-> FALSE]]
    /\ catalogo = CatalogoInicial
    /\ tickets = [u \in Usuarios |-> << >>]
    /\ cobrancas = [u \in Usuarios |-> [n \in NomesJogos |-> 0]]
    /\ atendidos = << >>
    /\ atuaram = << >>
    /\ InitSessao
    /\ saida = Chamada("init", None, None, 0, "ok")

Next ==
    \/ \E u \in Compradores, m \in EntradasValor : AdicionarSaldo(u, m)
    \/ \E u \in Compradores, p \in EntradasPlataforma : DefinirPreferenciaPlataforma(u, p)
    \/ \E u \in Compradores, n \in EntradasJogo : FacadeComprarJogo(u, n)
    \/ \E u \in Compradores, n \in EntradasJogo : MenuLoja(u, n)
    \/ \E u \in Compradores, n \in NomesJogos, i \in EntradasItem : comprar_item(u, n, i)
    \/ \E u \in Compradores, n \in NomesJogos, i \in EntradasItem : MenuComprarItem(u, n, i)
    \/ \E u \in Compradores, n \in NomesJogos : AtualizarJogo(u, n)
    \/ \E n \in NomesJogos, v \in EntradasVersao : PublicarPatch(n, v)
    \/ \E a \in Adultos, d \in Infantis, pi \in BOOLEAN, pj \in BOOLEAN :
          MenuDependentes(a, d, pi, pj)
    \/ \E u \in Compradores, p \in EntradasProblema : MenuSuporte(u, p)

Spec == Init /\ [][Next]_vars
NextSuporte ==
    \/ \E u \in Usuarios, p \in EntradasProblema, c \in EntradasCategoria :
          AbrirTicket(u, p, c)
    \/ \E u \in Usuarios, p \in EntradasProblema : MenuSuporte(u, p)
    \/ \E u \in Usuarios : ProcessarTickets(u)
    \/ \E a \in Adultos, d \in Infantis, pi \in BOOLEAN, pj \in BOOLEAN :
          MenuDependentes(a, d, pi, pj)

SpecSuporte == Init /\ [][NextSuporte]_vars

(***************************************************************************)
(* Versions: both seeded accounts buy, an administrator publishes, the     *)
(* owners update.  A published version may be the one already current      *)
(* (publicar_patch compares nothing).                                      *)
(***************************************************************************)
EntradasVersaoPatch == EntradasVersao \cup {"1.0.0"}

NextPatch ==
    \/ \E u \in Usuarios, m \in EntradasValor : AdicionarSaldo(u, m)
    \/ \E u \in Usuarios, n \in NomesJogos : comprar_jogo(u, n)
    \/ \E u \in Usuarios, n \in NomesJogos : AtualizarJogo(u, n)
    \/ \E n \in NomesJogos, v \in EntradasVersaoPatch : PublicarPatch(n, v)

SpecPatch == Init /\ [][NextPatch]_vars

(***************************************************************************)
(* Achievements: an account buys games, an administrator adds points and   *)
(* registers achievements, and callers hand candidate lists directly.      *)
(***************************************************************************)
NextAchievements ==
    \/ \E u \in Compradores : AdicionarSaldo(u, 100000)
    \/ \E u \in Compradores, n \in NomesJogos : comprar_jogo(u, n)
    \/ \E x \in Compradores \cup {"zed"}, n \in EntradasJogo, p \in EntradasPontos :
          MenuAdminPontuar(x, n, p)
    \/ \E u \in Compradores, n \in NomesJogos, novos \in EntradasNovos :
          RegistrarAchievementsDesbloqueados(u, n, novos)
    \/ \E n \in NomesJogos, a \in EntradasAchievement : RegistrarAchievement(n, a)

SpecAchievements == Init /\ [][NextAchievements]_vars

(***************************************************************************)
(* Accessors: an account gets a balance, games, tickets and a message; a   *)
(* caller reads each through its accessor and writes into what it got.     *)
(***************************************************************************)
NextAcessores ==
    \/ \E u \in Compradores : AdicionarSaldo(u, 100000)
    \/ \E u \in Compradores, n \in NomesJogos : comprar_jogo(u, n)
    \/ \E u \in Compradores, p \in EntradasProblema : AbrirTicket(u, p, "login")
    \/ \E u \in Compradores, m \in EntradasMensagem : AdicionarMensagem(u, m)
    \/ \E u \in Compradores : LerSaldo(u)
    \/ \E u \in Compradores : ListarTickets(u)
    \/ \E u \in Compradores : ListarMensagens(u)
    \/ \E u \in Compradores : ListarJogosNomes(u)
    \/ \E u \in Compradores, n \in NomesJogos : GetRegistroJogo(u, n)
    \/ EscreverValor
    \/ EsvaziarLista
    \/ \E i \in 1..MaxTickets : EscreverStatus(i)
    \/ EscreverVersaoInstalada
    \/ EscreverVersaoDoJogo

SpecAcessores == Init /\ [][NextAcessores]_vars

\* The catalogue menu of the administrator and the purchases of an account
\* with credit, until the balance passes MaxSaldo.
NextAdmin ==
    \/ \E u \in Adultos : AdicionarSaldo(u, 100000)
    \/ \E u \in Adultos, n \in DOMAIN catalogo :
          saldo[u] <= MaxSaldo /\ comprar_jogo(u, n)
    \/ \E u \in Adultos, n \in DOMAIN catalogo, i \in EntradasItem :
          saldo[u] <= MaxSaldo /\ comprar_item(u, n, i)
    \/ \E n \in EntradasNovoJogo, t \in EntradasPreco, ps \in EntradasPlataformas,
          tipo \in EntradasTipo : GerenciarAdicionarJogo(n, t, ps, tipo)
    \/ \E n \in EntradasNovoJogo, i \in {"Espada"}, t \in EntradasPreco :
          GerenciarAdicionarItem(n, i, t)

SpecAdmin == Init /\ [][NextAdmin]_vars

\* The session as seeded, with a MatchmakingQueue of any size asked for.
InitMatchmaking ==
    /\ saldo = [u \in Usuarios |-> POOCoin(0)]
    /\ jogos_adquiridos = [u \in Usuarios |-> << >>]
    /\ preferencia_plataforma = [u \in Usuarios |-> None]
    /\ status_aprovacao = [u \in Infantis |-> "pendente"]
    /\ permissoes = [u \in Infantis |->
                        [pode_comprar_itens |-> FALSE, pode_comprar_jogos |-> FALSE]]
    /\ catalogo = CatalogoInicial
    /\ tickets = [u \in Usuarios |-> << >>]
    /\ cobrancas = [u \in Usuarios |-> [n \in NomesJogos |-> 0]]
    /\ atendidos = << >>
    /\ atuaram = << >>
    /\ usuarios = UsuariosIniciais
    /\ criados = Len(UsuariosIniciais)
    /\ mensagens = [u \in Usuarios |-> << >>]
    /\ pontuacoes = [n \in NomesJogos |-> << >>]
    /\ achievements = AchievementsIniciais
    /\ achievements_desbloqueados = [u \in Usuarios |-> << >>]
    /\ anuncios = [u \in Usuarios |-> [n \in NomesJogos |-> << >>]]
    /\ retornado = SemRetorno
    /\ filas = << >>
    /\ tamanho_partida \in {MatchmakingQueue(t) : t \in EntradasTamanho}
    /\ _instance = 0
    /\ saida = Chamada("init", None, None, 0, "ok")

\* The matchmaking menu of the accounts, after credit and purchase, and the
\* calls of other players on the queue of one game.
NextMatchmaking ==
    \/ \E u \in Adultos : AdicionarSaldo(u, 100000)
    \/ \E u \in Adultos : comprar_jogo(u, "Aventuras_em_POO")
    \/ \E u \in Usuarios, n \in EntradasFila : MenuEntrarFila(u, n)
    \/ \E x \in EntradasJogador : EntrarFila("Aventuras_em_POO", x)
    \/ \E n \in EntradasFila : TentarFormarPartida(n)

SpecMatchmaking == InitMatchmaking /\ [][NextMatchmaking]_vars

\* The class before any PlataformaSingleton() call: no object, no registry.
InitSingleton ==
    /\ saldo = << >>
    /\ jogos_adquiridos = << >>
    /\ preferencia_plataforma = << >>
    /\ status_aprovacao = << >>
    /\ permissoes = << >>
    /\ catalogo = << >>
    /\ tickets = << >>
    /\ cobrancas = << >>
    /\ atendidos = << >>
    /\ atuaram = << >>
    /\ usuarios = << >>
    /\ criados = 0
    /\ mensagens = << >>
    /\ pontuacoes = << >>
    /\ achievements = << >>
    /\ achievements_desbloqueados = << >>
    /\ anuncios = << >>
    /\ retornado = SemRetorno
    /\ filas = << >>
    /\ tamanho_partida = 2
    /\ _instance = 0
    /\ saida = Chamada("init", None, None, 0, "ok")

\* Constructions of PlataformaSingleton, and registrations on the object
\* they return: accounts through the facade, games through the catalogue
\* menu, names in the matchmaking queues.
NextSingleton ==
    \/ PlataformaSingleton
    \/ \E n \in EntradasNome, e \in EntradasEmail :
          _instance # 0 /\ CadastrarUsuarioAdulto(n, e, 30)
    \/ \E ps \in EntradasPlataformas :
          _instance # 0 /\ GerenciarAdicionarJogo("Novo", "5", ps, "1")
    \/ \E u \in EntradasNome :
          _instance # 0 /\ EntrarFila("Novo", u)

SpecSingleton == InitSingleton /\ [][NextSingleton]_vars

(***************************************************************************)
(* Registration on a platform that starts with no account.                 *)
(***************************************************************************)
InitCadastro ==
    /\ saldo = << >>
    /\ jogos_adquiridos = << >>
    /\ preferencia_plataforma = << >>
    /\ status_aprovacao = << >>
    /\ permissoes = << >>
    /\ catalogo = CatalogoInicial
    /\ tickets = << >>
    /\ cobrancas = << >>
    /\ atendidos = << >>
    /\ atuaram = << >>
    /\ usuarios = << >>
    /\ criados = 0
    /\ mensagens = << >>
    /\ pontuacoes = [n \in NomesJogos |-> << >>]
    /\ achievements = AchievementsIniciais
    /\ achievements_desbloqueados = << >>
    /\ anuncios = << >>
    /\ retornado = SemRetorno
    /\ filas = << >>
    /\ tamanho_partida = 2
    /\ _instance = 0
    /\ saida = Chamada("init", None, None, 0, "ok")

NextCadastro ==
    \/ \E n \in EntradasNome, e \in EntradasEmail, i \in EntradasIdade,
          r \in EntradasResponsavel : CriarUsuario(n, e, i, r)
    \/ \E n \in EntradasNome, e \in EntradasEmail : CadastrarUsuarioAdulto(n, e, 30)
    \/ \E n \in EntradasNome, e \in EntradasEmail, r \in EntradasResponsavel :
          CadastrarUsuarioInfantil(n, e, 10, r)
    \/ \E x \in Identificadores, d \in EntradasNome, pi \in BOOLEAN, pj \in BOOLEAN :
          LoginMenuDependentes(x, d, pi, pj)

SpecCadastro == InitCadastro /\ [][NextCadastro]_vars

(***************************************************************************)
(* The chain as a function of the dict it is handed: any category, a       *)
(* missing one included, and any status.                                   *)
(***************************************************************************)
TicketsEntrada ==
    {[problema |-> p, status |-> s, categoria |-> c] :
        p \in {"p1", "p2", "p3"},
        s \in {Aberto, ResolvidoBasico, ResolvidoAvancado, EmAnalise},
        c \in {"login", "cadastro", "senha", "pagamento", "instalacao", "geral", "xyz"}}
    \cup
    {[problema |-> p, status |-> s] :
        p \in {"p1", "p2", "p3"},
        s \in {Aberto, ResolvidoBasico, ResolvidoAvancado, EmAnalise}}

InitChain ==
    /\ saldo = [u \in Usuarios |-> POOCoin(0)]
    /\ jogos_adquiridos = [u \in Usuarios |-> << >>]
    /\ preferencia_plataforma = [u \in Usuarios |-> None]
    /\ status_aprovacao = [u \in Infantis |-> "pendente"]
    /\ permissoes = [u \in Infantis |->
                        [pode_comprar_itens |-> FALSE, pode_comprar_jogos |-> FALSE]]
    /\ catalogo = CatalogoInicial
    /\ tickets = [u \in Usuarios |-> << >>]
    /\ cobrancas = [u \in Usuarios |-> [n \in NomesJogos |-> 0]]
    /\ \E t \in TicketsEntrada : atendidos = <<t>>
    /\ atuaram = << >>
    /\ InitSessao
    /\ saida = Chamada("init", None, None, 0, "ok")

\* self._suporte_chain.handle(t)
Handle ==
    LET r == handle(suporte_chain, atendidos[1], << >>) IN
    /\ atendidos' = <<r.ticket>>
    /\ atuaram' = <<r.resolveram>>
    /\ saida' = Chamada("handle", None, None, 0, "ok")
    /\ UNCHANGED tickets
    /\ RestoSuporte

NextChain == Handle

SpecChain == InitChain /\ [][NextChain]_vars

(***************************************************************************)
(* Properties                                                              *)
(***************************************************************************)
Falhas == {"AlreadyOwned", "IncompatiblePlatform", "InsufficientFunds", "NotOwned",
           "ItemNotFound", "InvalidAmount", "InvalidPlatform"}

\* The step is the call op of account u about alvo.
Chamou(op, u, alvo) == saida'.op = op /\ saida'.usuario = u /\ saida'.alvo = alvo

\* C1: comprar_jogo succeeds if and only if the game is not yet owned, the
\* platform preference is unset or among the game's platforms, and the balance
\* is at least the price; a successful call takes exactly the price off the
\* balance and records the game with the version it has at that moment.
C1_CompraJogo ==
    [][\A u \in Usuarios, n \in NomesJogos :
          Chamou("comprar_jogo", u, n) =>
             LET jogo == catalogo[n]
                 pode == /\ n \notin DOMAIN jogos_adquiridos[u]
                         /\ \/ preferencia_plataforma[u] = None
                            \/ preferencia_plataforma[u] \in jogo.plataformas
                         /\ saldo[u] >= jogo.preco
             IN /\ (saida'.msg = "ok") <=> pode
                /\ pode => /\ saldo'[u] = saldo[u] - jogo.preco
                           /\ n \in DOMAIN jogos_adquiridos'[u]
                           /\ jogos_adquiridos'[u][n].versao_instalada = jogo.versao_atual
                           /\ jogos_adquiridos'[u][n].obj = n]_vars

\* A purchase made with a preference set, after a patch, with the balance
\* equal to the price.
C1_Witness ==
    \E u \in Usuarios :
       /\ saida.op = "comprar_jogo" /\ saida.usuario = u /\ saida.msg = "ok"
       /\ preferencia_plataforma[u] = "Console"
       /\ saida.alvo \in DOMAIN jogos_adquiridos[u]
       /\ jogos_adquiridos[u][saida.alvo].versao_instalada = "1.1.0"
       /\ saldo[u] = 0

\* C2: a call of comprar_jogo, comprar_item, adicionar_saldo,
\* definir_preferencia_plataforma or atualizar_jogo that fails leaves every
\* account's balance, library, platform preference and tickets as they were.
C2_FalhaNaoAltera ==
    [][(/\ saida'.op \in {"comprar_jogo", "comprar_item", "adicionar_saldo",
                          "definir_preferencia_plataforma", "atualizar_jogo"}
        /\ saida'.msg \in Falhas)
       => /\ saldo' = saldo
          /\ jogos_adquiridos' = jogos_adquiridos
          /\ preferencia_plataforma' = preferencia_plataforma
          /\ tickets' = tickets]_vars

\* A purchase refused for lack of funds on an account that has a balance, a
\* game, a preference and a ticket.
C2_Witness ==
    \E u \in Usuarios :
       /\ saida.op = "comprar_jogo" /\ saida.usuario = u
       /\ saida.msg = "InsufficientFunds"
       /\ saldo[u] > 0
       /\ DOMAIN jogos_adquiridos[u] # {}
       /\ preferencia_plataforma[u] # None
       /\ tickets[u] # << >>

\* C3: the balance of every account is at least zero in every reachable state.
C3_SaldoNaoNegativo == \A u \in Usuarios : saldo[u] >= 0

\* A purchase of an item that took the balance to exactly zero.
C3_Witness ==
    \E u \in Usuarios :
       /\ saida.op = "comprar_item" /\ saida.usuario = u /\ saida.msg = "ok"
       /\ saldo[u] = 0

\* C4: once an account owns a game it owns it in every later state, no later
\* step debits the account for that game again, and every later comprar_jogo
\* of the pair answers AlreadyOwned and leaves the balance as it was; the
\* account is debited for a game at most once.
C4_CompraUmaVez ==
    [][\A u \in Usuarios, n \in NomesJogos :
          /\ cobrancas'[u][n] <= 1
          /\ n \in DOMAIN jogos_adquiridos[u] =>
                /\ n \in DOMAIN jogos_adquiridos'[u]
                /\ cobrancas'[u][n] = cobrancas[u][n]
                /\ Chamou("comprar_jogo", u, n) =>
                      /\ saida'.msg = "AlreadyOwned"
                      /\ saldo'[u] = saldo[u]]_vars

\* A second purchase of an owned game, refused, with funds for it at hand.
C4_Witness ==
    \E u \in Usuarios :
       /\ saida.op = "comprar_jogo" /\ saida.usuario = u
       /\ saida.msg = "AlreadyOwned"
       /\ cobrancas[u][saida.alvo] = 1
       /\ saldo[u] >= catalogo[saida.alvo].preco

\* C5: while a child account is 'pendente', no comprar_jogo and no
\* comprar_item of that account succeeds, and each leaves its balance and its
\* library as they were.  (The claim also names the failure, ApprovalRequired;
\* a behaviour that violates this formula violates the claim whatever the
\* failure is called.)
C5_PendenteNaoCompra ==
    [][\A u \in Infantis :
          (/\ status_aprovacao[u] = "pendente"
           /\ saida'.usuario = u
           /\ saida'.op \in {"comprar_jogo", "comprar_item"})
          => /\ saida'.msg # "ok"
             /\ saldo'[u] = saldo[u]
             /\ jogos_adquiridos'[u] = jogos_adquiridos[u]]_vars

\* C6: for a child account that is 'aprovado', comprar_jogo with
\* pode_comprar_jogos false and comprar_item with pode_comprar_itens false do
\* not succeed and leave its balance and its library as they were.
C6_PermissaoBarraCompra ==
    [][\A u \in Infantis :
          (/\ status_aprovacao[u] = "aprovado"
           /\ saida'.usuario = u
           /\ \/ saida'.op = "comprar_jogo" /\ ~permissoes[u].pode_comprar_jogos
              \/ saida'.op = "comprar_item" /\ ~permissoes[u].pode_comprar_itens)
          => /\ saida'.msg # "ok"
             /\ saldo'[u] = saldo[u]
             /\ jogos_adquiridos'[u] = jogos_adquiridos[u]]_vars

\* C7: when processar_tickets_usuario has returned, no ticket stored on the
\* account is still 'Aberto' (a ticket changes status only through the chain,
\* so one that is 'Aberto' after the call was 'Aberto' before it).
C7_TicketsResolvidosNaConta ==
    saida.op = "processar_tickets_usuario" =>
       \A i \in DOMAIN tickets[saida.usuario] :
          get(tickets[saida.usuario][i], "status") # Aberto

\* C8: the dict the chain was handed ends with a status other than 'Aberto',
\* whatever its category, a missing one included.
C8_NuncaAberto ==
    saida.op = "handle" => get(atendidos[1], "status") # Aberto

\* The chain has handled a dict that has no category.
C8_Witness ==
    /\ saida.op = "handle"
    /\ "categoria" \notin DOMAIN atendidos[1]
    /\ get(atendidos[1], "status") = EmAnalise

\* C9: exactly one handler acts on the dict: AtendimentoBasico for login,
\* cadastro and senha, AtendimentoAvancado for pagamento and instalacao,
\* AtendimentoFallback for every other category, each leaving its own status.
C9_Roteamento ==
    saida.op = "handle" =>
       LET t == atendidos[1]
           c == get(t, "categoria")
       IN /\ Len(atuaram[1]) = 1
          /\ c \in {"login", "cadastro", "senha"} =>
                /\ atuaram[1] = <<"AtendimentoBasico">>
                /\ get(t, "status") = ResolvidoBasico
          /\ c \in {"pagamento", "instalacao"} =>
                /\ atuaram[1] = <<"AtendimentoAvancado">>
                /\ get(t, "status") = ResolvidoAvancado
          /\ c \notin {"login", "cadastro", "senha", "pagamento", "instalacao"} =>
                /\ atuaram[1] = <<"AtendimentoFallback">>
                /\ get(t, "status") = EmAnalise

\* The chain has handled a dict of category pagamento.
C9_Witness ==
    /\ saida.op = "handle"
    /\ get(atendidos[1], "categoria") = "pagamento"
    /\ get(atendidos[1], "status") = ResolvidoAvancado
    /\ atuaram[1] = <<"AtendimentoAvancado">>

\* C10: adicionar_saldo of an amount above zero leaves the balance at the
\* balance before plus the amount; of an amount of zero or less it prints
\* that the amount must be positive and leaves the balance as it was.
C10_Credito ==
    [][\A u \in Usuarios :
          (saida'.op = "adicionar_saldo" /\ saida'.usuario = u) =>
             LET valor == saida'.valor IN
             /\ valor > 0 => /\ saida'.msg = "ok"
                             /\ saldo'[u] = saldo[u] + valor
             /\ valor <= 0 => /\ saida'.msg = "InvalidAmount"
                              /\ saldo'[u] = saldo[u]
             /\ \A w \in Usuarios \ {u} : saldo'[w] = saldo[w]]_vars

\* A credit, rounded up from thousandths, on top of a balance above zero.
C10_Witness ==
    \E u \in Usuarios :
       /\ saida.op = "adicionar_saldo" /\ saida.usuario = u /\ saida.msg = "ok"
       /\ saida.valor = 5000
       /\ saldo[u] = 9000

C12_CompraItem ==
    [][\A u \in Usuarios, n \in NomesJogos :
          Chamou("comprar_item", u, n) =>
             LET item == saida'.item
                 loja == catalogo[n].loja
                 pode == /\ possui_jogo(u, n)
                         /\ item \in DOMAIN loja
                         /\ saldo[u] >= loja[item]
             IN /\ (saida'.msg = "ok") <=> pode
                /\ pode => /\ saldo' = [saldo EXCEPT ![u] = saldo[u] - loja[item]]
                           /\ UNCHANGED <<jogos_adquiridos, preferencia_plataforma,
                                          status_aprovacao, permissoes, catalogo,
                                          tickets, mensagens, usuarios, pontuacoes,
                                          achievements, achievements_desbloqueados>>]_vars

\* An item bought from the shop of an owned game with balance left over.
C12_Witness ==
    \E u \in Usuarios :
       /\ saida.op = "comprar_item" /\ saida.usuario = u /\ saida.msg = "ok"
       /\ saida.item = "Ponto_Extra"
       /\ saida.valor = catalogo[saida.alvo].loja["Ponto_Extra"]
       /\ DOMAIN jogos_adquiridos[u] = {saida.alvo}
       /\ saldo[u] > 0

\* C13: atualizar_jogo of an owned game leaves the stored installed version
\* equal to the game's current version and touches no other record and not
\* the catalogue; when the installed version already is the current one the
\* call reports it and changes nothing, so a call that follows another call
\* of the same account for the same game, with no publicar_patch in between,
\* leaves the library as the first one left it.
C13_AtualizarIdempotente ==
    [][\A u \in Usuarios, n \in NomesJogos :
          (Chamou("atualizar_jogo", u, n) /\ possui_jogo(u, n)) =>
             LET atual == catalogo[n].versao_atual
                 em_dia == jogos_adquiridos[u][n].versao_instalada = atual
                 repetida == /\ saida.op = "atualizar_jogo"
                             /\ saida.usuario = u /\ saida.alvo = n
             IN /\ jogos_adquiridos' =
                      [jogos_adquiridos EXCEPT ![u][n].versao_instalada = atual]
                /\ catalogo' = catalogo
                /\ em_dia => /\ saida'.msg = "UpToDate"
                             /\ jogos_adquiridos' = jogos_adquiridos
                /\ ~em_dia => saida'.msg = "ok"
                /\ repetida => /\ em_dia
                               /\ jogos_adquiridos' = jogos_adquiridos]_vars

\* The second of two calls in a row for a game bought before the patch: the
\* first brought it to 1.1.0, the second found it up to date.
C13_Witness ==
    \E u \in Usuarios :
       /\ saida.op = "atualizar_jogo" /\ saida.usuario = u /\ saida.msg = "UpToDate"
       /\ saida.alvo \in DOMAIN jogos_adquiridos[u]
       /\ jogos_adquiridos[u][saida.alvo].versao_instalada = "1.1.0"
       /\ catalogo[saida.alvo].versao_atual = "1.1.0"
       /\ saldo[u] = 0

\* C14: publicar_patch sets the versao_atual of its game, appends the version
\* to its patch history and changes nothing else of that game, of the other
\* games, or of any account; the installed version an account stores for a
\* game it owns changes in a step only if the step is that account's
\* atualizar_jogo of that game.
C14_PatchNaoRetroativo ==
    [][/\ \A n \in NomesJogos :
             (saida'.op = "publicar_patch" /\ saida'.alvo = n) =>
                /\ catalogo'[n].patches =
                      Append(catalogo[n].patches, catalogo'[n].versao_atual)
                /\ catalogo' = [catalogo EXCEPT
                                   ![n].versao_atual = catalogo'[n].versao_atual,
                                   ![n].patches = catalogo'[n].patches]
                /\ UNCHANGED <<saldo, jogos_adquiridos, preferencia_plataforma,
                               status_aprovacao, permissoes, tickets, mensagens,
                               usuarios, achievements_desbloqueados>>
       /\ \A u \in Usuarios, n \in NomesJogos :
             (/\ possui_jogo(u, n)
              /\ jogos_adquiridos'[u][n].versao_instalada
                    # jogos_adquiridos[u][n].versao_instalada)
             => Chamou("atualizar_jogo", u, n)]_vars

\* A patch published for a game that both accounts own: each library still
\* holds 1.0.0 while the game is at 1.1.0.
C14_Witness ==
    /\ saida.op = "publicar_patch"
    /\ catalogo[saida.alvo].versao_atual = "1.1.0"
    /\ \A u \in Usuarios :
          /\ saida.alvo \in DOMAIN jogos_adquiridos[u]
          /\ jogos_adquiridos[u][saida.alvo].versao_instalada = "1.0.0"

\* C16: in every reachable state the platform preference of every account is
\* unset or one of PC, Mobile, Console; definir_preferencia_plataforma with
\* None or one of the three stores it, and with any other token it answers
\* InvalidPlatform and leaves every preference as it was.
C16_PreferenciaValida ==
    /\ [](\A u \in Usuarios :
             preferencia_plataforma[u] \in {None, "PC", "Mobile", "Console"})
    /\ [][\A u \in Usuarios :
             (saida'.op = "definir_preferencia_plataforma" /\ saida'.usuario = u) =>
                LET token == saida'.alvo IN
                IF token \in {None, "PC", "Mobile", "Console"}
                THEN /\ saida'.msg = "ok"
                     /\ preferencia_plataforma' =
                           [preferencia_plataforma EXCEPT ![u] = token]
                ELSE /\ saida'.msg = "InvalidPlatform"
                     /\ preferencia_plataforma' = preferencia_plataforma]_vars

\* A token outside the three was refused and the preference set before it,
\* Console, is still there.
C16_Witness ==
    \E u \in Usuarios :
       /\ saida.op = "definir_preferencia_plataforma" /\ saida.usuario = u
       /\ saida.alvo = "Xbox"
       /\ saida.msg = "InvalidPlatform"
       /\ preferencia_plataforma[u] = "Console"

\* The ids of the account objects in the registry.
Ids(registro) == {registro[i].id : i \in DOMAIN registro}

C18_CadastroUnico ==
    [][/\ \A i, j \in DOMAIN usuarios' :
             i # j => /\ usuarios'[i].nome # usuarios'[j].nome
                      /\ usuarios'[i].email # usuarios'[j].email
       /\ Ids(usuarios) \subseteq Ids(usuarios')]_vars

\* C19: a call of adicionar_saldo, definir_preferencia_plataforma,
\* comprar_jogo, comprar_item or the facade's comprar_jogo that fails hands
\* its caller something a successful call does not: a returned value other
\* than None or an exception.  (The claim also asks that it name the kind of
\* the failure; a call that violates this formula violates that as well.)
C19_FalhaTipada ==
    (/\ saida.op \in {"adicionar_saldo", "definir_preferencia_plataforma",
                       "comprar_jogo", "comprar_item", "facade_comprar_jogo"}
     /\ saida.msg \in Falhas \cup {"NotFound"})
    => (saida.retorno # None \/ saida.excecao # None)

\* C20: for every account, game and codigo, the "desbloqueou" line has been
\* printed at most once; a step prints it only for a codigo that was not
\* recorded before the step and is recorded after it, and never for one
\* already recorded; a codigo recorded before a step is recorded after it.
C20_AchievementUmaVez ==
    [][\A u \in Usuarios, n \in NomesJogos :
          /\ desbloqueados(u, n) \subseteq
                (IF n \in DOMAIN achievements_desbloqueados'[u]
                 THEN achievements_desbloqueados'[u][n] ELSE {})
          /\ \A c \in DOMAIN anuncios'[u][n] :
                /\ anuncios'[u][n][c] <= 1
                /\ anuncios'[u][n][c] # anunciado(u, n, c) =>
                      /\ c \notin desbloqueados(u, n)
                      /\ c \in achievements_desbloqueados'[u][n]
                /\ c \in desbloqueados(u, n) =>
                      anuncios'[u][n][c] = anunciado(u, n, c)
          /\ \A c \in (IF n \in DOMAIN achievements_desbloqueados'[u]
                        THEN achievements_desbloqueados'[u][n] ELSE {})
                       \ desbloqueados(u, n) :
                /\ c \in DOMAIN anuncios'[u][n]
                /\ anuncios'[u][n][c] = 1]_vars

\* Points were added again to an account that had unlocked both seeded
\* achievements: both were candidates, none was recorded or announced anew.
C20_Witness ==
    \E u \in Usuarios :
       /\ saida.op = "menu_admin_pontuar" /\ saida.usuario = u
       /\ saida.msg = "NenhumNovo"
       /\ pontuacoes[saida.alvo][u] >= 1000
       /\ {"P100", "P1000"} \subseteq desbloqueados(u, saida.alvo)
       /\ anunciado(u, saida.alvo, "P100") = 1
       /\ anunciado(u, saida.alvo, "P1000") = 1

C21_Precedencia ==
    [][\A u \in Usuarios, n \in NomesJogos :
          /\ Chamou("comprar_jogo", u, n) =>
                LET pref == preferencia_plataforma[u]
                    incompativel == pref # None /\ pref \notin catalogo[n].plataformas
                    sem_saldo == saldo[u] < catalogo[n].preco
                IN saida'.msg =
                      (IF possui_jogo(u, n) THEN "AlreadyOwned"
                       ELSE IF incompativel THEN "IncompatiblePlatform"
                       ELSE IF sem_saldo THEN "InsufficientFunds" ELSE "ok")
          /\ Chamou("comprar_item", u, n) =>
                LET loja == catalogo[n].loja
                    item == saida'.item
                IN saida'.msg =
                      (IF ~possui_jogo(u, n) THEN "NotOwned"
                       ELSE IF item \notin DOMAIN loja THEN "ItemNotFound"
                       ELSE IF saldo[u] < loja[item] THEN "InsufficientFunds" ELSE "ok")]_vars

\* Two tests fail at once and the earlier one is reported: the preference is
\* not listed by a game that is not owned and the balance is below its price.
C21_Witness ==
    \E u \in Usuarios :
       /\ saida.op = "comprar_jogo" /\ saida.usuario = u
       /\ saida.msg = "IncompatiblePlatform"
       /\ saida.alvo \notin DOMAIN jogos_adquiridos[u]
       /\ preferencia_plataforma[u] \notin catalogo[saida.alvo].plataformas
       /\ saldo[u] < catalogo[saida.alvo].preco

\* C22: no call of comprar_jogo or comprar_item leaves the balance of the
\* account above what it was before the call, whatever the prices the
\* administrator registered.
C22_SaldoSoCresceComCredito ==
    [][\A u \in Usuarios :
          saida'.usuario = u /\ saida'.op \in {"comprar_jogo", "comprar_item"}
             => saldo'[u] <= saldo[u]]_vars

\* C23: every PlataformaSingleton() returns the object the first one
\* returned, and a construction after the first leaves the accounts, the
\* games and the matchmaking queues of that object as they were.
C23_SingletonIntacto ==
    [][saida'.op = "PlataformaSingleton" /\ _instance # 0
          => /\ saida'.valor = _instance
             /\ usuarios' = usuarios
             /\ catalogo' = catalogo
             /\ filas' = filas]_vars

\* C24: in the state criar_usuario leaves after creating a child account, the
\* child is in the pending list menu_dependentes builds for the adult that
\* encontrar_usuario returns for the identifier typed as guardian.
C24_FilhoAprovavel ==
    saida.op = "criar_usuario" /\ saida.msg = "ok" /\ saida.valor < 18
       => LET filho == saida.usuario
              responsavel == encontrar_usuario(conta(filho).responsavel_email)
          IN /\ responsavel # 0
             /\ usuarios[responsavel].tipo = "Adulto"
             /\ filho \in pendentes(usuarios[responsavel].nome)

\* C25: no name is twice in the queue of a game and tamanho_partida is at
\* least 2, in every state; and a call of tentar_formar_partida with
\* tamanho_partida names or more waiting returns a Match of the first
\* tamanho_partida names of the queue in their order and leaves in the queue
\* the names after them in their order, while with fewer names waiting it
\* returns None and leaves the queues as they were; the queues of the other
\* games are as they were in both cases.
C25_Matchmaking ==
    /\ [](/\ tamanho_partida >= 2
          /\ \A j \in DOMAIN filas : \A a, b \in DOMAIN filas[j] :
                filas[j][a] = filas[j][b] => a = b)
    /\ [][saida'.op = "tentar_formar_partida" =>
            LET jogo == saida'.alvo
                fila == fila_de(jogo)
                n == tamanho_partida
            IN IF Len(fila) >= n
               THEN /\ saida'.retorno = "Match"
                    /\ retornado'.lista = SubSeq(fila, 1, n)
                    /\ DOMAIN filas' = DOMAIN filas
                    /\ filas'[jogo] = SubSeq(fila, n + 1, Len(fila))
                    /\ \A j \in DOMAIN filas \ {jogo} : filas'[j] = filas[j]
               ELSE /\ saida'.retorno = None
                    /\ retornado'.lista = << >>
                    /\ filas' = filas]_vars

\* A match was formed from a queue that held two names more than a match
\* takes: the two left are still waiting.
C25_Witness ==
    /\ saida.op = "tentar_formar_partida"
    /\ saida.retorno = "Match"
    /\ Len(retornado.lista) = tamanho_partida
    /\ saida.valor = tamanho_partida + 2
    /\ Len(filas[saida.alvo]) = 2
====
